---- MODULE Spec2Model ----
(***************************************************************************)
(* Model of the sustainability scoring engine (scoring_model.py) and of    *)
(* the serving layer that filters and ranks the catalog (app.py).          *)
(*                                                                         *)
(* Numbers.  A number is a Python float, an IEEE 754 binary64 value, held  *)
(* exactly as sign, odd mantissa and binary exponent; +, *, / and          *)
(* round(x, 2) round as the machine does.  An int is held as the float     *)
(* equal to it.  Flt(7600) is the float nearest to 76.00; the mantissa is  *)
(* a natural number of any size, written in base 2^14.                     *)
(*                                                                         *)
(* Strings.  A string is the sequence of its characters, so that strip(),  *)
(* lower(), the `in` test, float() and int() are computed on the text      *)
(* itself.  A character is written as itself; a control or space character *)
(* without a TLA+ escape is written by its code point ("U+00A0"), and      *)
(* "ndash" stands for U+2013.  The alphabet is ASCII and Latin-1 (with the *)
(* white-space characters of Unicode): lower() and isdigit() leave any     *)
(* other character as it is.                                               *)
(*                                                                         *)
(* Values.  A Python value is a record tagged by its type: None, Bool(b),  *)
(* Str(chars), NumF(float), Lst(items), Dict(fields), where fields is a    *)
(* function from keys to values.                                           *)
(***************************************************************************)
EXTENDS Integers, Sequences, FiniteSets, TLC

VARIABLES
    PRODUCTS_RAW,        \* app.py: the catalog loaded once at start
    product,             \* the record a caller passes to the engine
    weights,             \* [h, c, s]: the three weight arguments
    reference_lifespan,  \* the reference_lifespan argument
    pc,                  \* "start" before the call, then the operation that ran
    result,              \* what the last call returned (or the error it raised)
    request,             \* the last request of the serving layer
    input_file,          \* main(): the JSON root of the --input file
    products,            \* main(): what load_products returned
    scored_products,     \* main(): the list the loop appends to
    output_file,         \* main(): the JSON root of the --output file, once written
    stdout               \* main(): the lines printed so far

\* The variables of a batch run.
batch == <<input_file, products, scored_products, output_file, stdout>>

vars == <<PRODUCTS_RAW, product, weights, reference_lifespan, pc, result,
          request, batch>>

----------------------------------------------------------------------------
(* Bounds of the model. *)

MaxCerts == 5
MaxCatalog == 2

\* The element of a singleton.  In The({e(x) : x \in {v}}) the expression e is
\* evaluated for the value of v: this is how an intermediate result that the
\* code stores in a local variable is bound to its name.
The(S) == CHOOSE x \in S : TRUE

----------------------------------------------------------------------------
(* Natural numbers of any size: the sequence of base-B digits, lowest first,  *)
(* without a zero at the top; zero is the empty sequence.                     *)

B == 16384
BigNat == Seq(Nat)

Pow2[k \in Nat] == IF k = 0 THEN 1 ELSE 2 * Pow2[k - 1]

BOf[n \in Nat] == IF n = 0 THEN <<>> ELSE <<n % B>> \o BOf[n \div B]

\* a without the zeros at its top.
BTrim[a \in BigNat] ==
    SubSeq(a, 1, Len(a) - Cardinality({i \in 1..Len(a) : \A j \in i..Len(a) : a[j] = 0}))

\* The digits of sum(w[i] * B^(i-1)) + c, for w[i] that may exceed B.
\* Len(w) digits d and the carry out c, by halves.
BCarryOut[w \in BigNat, c \in Nat] ==
    IF Len(w) = 0 THEN [d |-> <<>>, c |-> c]
    ELSE IF Len(w) = 1 THEN [d |-> <<(w[1] + c) % B>>, c |-> (w[1] + c) \div B]
    ELSE The({The({[d |-> lo.d \o hi.d, c |-> hi.c] :
                   hi \in {BCarryOut[SubSeq(w, Len(w) \div 2 + 1, Len(w)), lo.c]}}) :
              lo \in {BCarryOut[SubSeq(w, 1, Len(w) \div 2), c]}})

BCarry[w \in BigNat, c \in Nat] ==
    The({IF r.c = 0 THEN r.d ELSE Append(r.d, r.c) : r \in {BCarryOut[w, c]}})

BAdd[a \in BigNat, b \in BigNat] ==
    BTrim[BCarry[[i \in 1..(IF Len(a) < Len(b) THEN Len(b) ELSE Len(a)) |->
                    (IF i <= Len(a) THEN a[i] ELSE 0)
                    + (IF i <= Len(b) THEN b[i] ELSE 0)], 0]]

BLess[a \in BigNat, b \in BigNat] ==
    IF Len(a) # Len(b) THEN Len(a) < Len(b)
    ELSE \E i \in 1..Len(a) : a[i] < b[i] /\ \A j \in (i + 1)..Len(a) : a[j] = b[j]

\* a - b - c for a >= b + c, digit by digit with the borrow c.
BBorrow[w \in Seq(Int), c \in Nat] ==
    IF Len(w) = 0 THEN [d |-> <<>>, c |-> c]
    ELSE IF Len(w) = 1
         THEN [d |-> <<(w[1] - c + B) % B>>, c |-> IF w[1] - c < 0 THEN 1 ELSE 0]
    ELSE The({The({[d |-> lo.d \o hi.d, c |-> hi.c] :
                   hi \in {BBorrow[SubSeq(w, Len(w) \div 2 + 1, Len(w)), lo.c]}}) :
              lo \in {BBorrow[SubSeq(w, 1, Len(w) \div 2), c]}})

\* a - b for a >= b
BSub[a \in BigNat, b \in BigNat] ==
    BTrim[BBorrow[[i \in 1..Len(a) |-> a[i] - (IF i <= Len(b) THEN b[i] ELSE 0)], 0].d]

\* a * s for one digit s.
BMulSmall[a \in BigNat, s \in Nat] ==
    BTrim[BCarry[[i \in 1..Len(a) |-> a[i] * s], 0]]

BMul[a \in BigNat, b \in BigNat] ==
    IF a = <<>> \/ b = <<>> THEN <<>>
    ELSE The({BAdd[BMulSmall[a, b[1]], IF rest = <<>> THEN <<>> ELSE <<0>> \o rest] :
              rest \in {BMul[a, Tail(b)]}})

\* a * 2^k
BShl[a \in BigNat, k \in Nat] ==
    IF a = <<>> THEN <<>>
    ELSE [i \in 1..(k \div 14) |-> 0] \o BMulSmall[a, Pow2[k % 14]]

SmallBitLen[n \in Nat] == IF n = 0 THEN 0 ELSE 1 + SmallBitLen[n \div 2]

BBitLen[a \in BigNat] ==
    IF a = <<>> THEN 0 ELSE 14 * (Len(a) - 1) + SmallBitLen[a[Len(a)]]

\* Quotient digits (a zero may stand at the top) and remainder of a by one digit s.
BDivDigits[a \in BigNat, s \in Nat, r \in Nat] ==
    IF Len(a) = 0 THEN [q |-> <<>>, r |-> r]
    ELSE IF Len(a) = 1 THEN [q |-> <<(r * B + a[1]) \div s>>, r |-> (r * B + a[1]) % s]
    ELSE The({The({[q |-> lo.q \o hi.q, r |-> lo.r] :
                   lo \in {BDivDigits[SubSeq(a, 1, Len(a) \div 2), s, hi.r]}}) :
              hi \in {BDivDigits[SubSeq(a, Len(a) \div 2 + 1, Len(a)), s, r]}})

BDivSmall[a \in BigNat, s \in Nat] == BDivDigits[a, s, 0]

\* Long division by d, whose top digit is at least B/2: the top two digits of
\* the running remainder over the top digit of d are at most two too large.
BDivLong[n \in BigNat, d \in BigNat] ==
    IF n = <<>> THEN [q |-> <<>>, r |-> <<>>]
    ELSE The({The({The({The({The({
             [q |-> <<digit>> \o up.q, r |-> BSub[rem, BMulSmall[d, digit]]] :
             digit \in {IF ~BLess[rem, BMulSmall[d, qhat]] THEN qhat
                        ELSE IF ~BLess[rem, BMulSmall[d, qhat - 1]] THEN qhat - 1
                        ELSE qhat - 2}}) :
             qhat \in {IF est < B THEN est ELSE B - 1}}) :
             est \in {((IF Len(rem) > Len(d) THEN rem[Len(d) + 1] ELSE 0) * B
                       + (IF Len(rem) >= Len(d) THEN rem[Len(d)] ELSE 0))
                      \div d[Len(d)]}}) :
             rem \in {BTrim[<<n[1]>> \o up.r]}}) :
             up \in {BDivLong[Tail(n), d]}})

\* [q, r] with n = q * d + r and r < d, for d > 0.
BDivMod[n \in BigNat, d \in BigNat] ==
    IF Len(d) = 1
    THEN The({[q |-> BTrim[s.q], r |-> BOf[s.r]] : s \in {BDivSmall[n, d[1]]}})
    ELSE The({The({[q |-> BTrim[s.q], r |-> BTrim[BDivSmall[s.r, f].q]] :
                   s \in {BDivLong[BMulSmall[n, f], BMulSmall[d, f]]}}) :
              f \in {Pow2[14 - SmallBitLen[d[Len(d)]]]}})

----------------------------------------------------------------------------
(* IEEE 754 binary64, the float of Python: a finite value is (-1)^neg * m *   *)
(* 2^e with m odd (or m = 0 and e = 0); every operation rounds its exact      *)
(* result to 53 bits, ties to even.                                            *)

Float == [k : {"fin", "inf", "nan"}, neg : BOOLEAN, m : BigNat, e : Int]

FZero(neg) == [k |-> "fin", neg |-> neg, m |-> <<>>, e |-> 0]
FInf(neg) == [k |-> "inf", neg |-> neg, m |-> <<>>, e |-> 0]
FNaN == [k |-> "nan", neg |-> FALSE, m |-> <<>>, e |-> 0]

IsZero(a) == a.k = "fin" /\ a.m = <<>>

SmallTZ[n \in Nat] == IF n % 2 = 1 THEN 0 ELSE 1 + SmallTZ[n \div 2]

\* M * 2^t for M > 0, with the factors of two moved into the exponent.
FCanon[neg \in BOOLEAN, M \in BigNat, t \in Int] ==
    The({The({[k |-> "fin", neg |-> neg,
               m |-> BTrim[BDivSmall[SubSeq(M, z + 1, Len(M)), Pow2[b]].q],
               e |-> t + 14 * z + b] :
              b \in {SmallTZ[M[z + 1]]}}) :
         z \in {Cardinality({i \in 1..Len(M) : \A j \in 1..i : M[j] = 0})}})

\* The integer nearest to n / den, a tie going to the even one.
BDivNearest[n \in BigNat, den \in BigNat] ==
    The({The({IF \/ BLess[den, twice]
                 \/ twice = den /\ dm.q # <<>> /\ dm.q[1] % 2 = 1
              THEN BAdd[dm.q, <<1>>] ELSE dm.q :
              twice \in {BMulSmall[dm.r, 2]}}) :
         dm \in {BDivMod[n, den]}})

\* The float nearest to (-1)^neg * (N / D) * 2^x, ties to even; subnormal below
\* 2^-1022, infinite from 2^1024.
FRound[neg \in BOOLEAN, N \in BigNat, D \in BigNat, x \in Int] ==
    IF N = <<>> THEN FZero(neg)
    ELSE The({The({The({The({
             IF M = <<>> THEN FZero(neg)
             ELSE IF BBitLen[M] + t > 1024 THEN FInf(neg)
             ELSE FCanon[neg, M, t] :
             M \in {BDivNearest[IF x > t THEN BShl[N, x - t] ELSE N,
                                IF x < t THEN BShl[D, t - x] ELSE D]}}) :
             t \in {IF E + x - 52 < -1074 THEN -1074 ELSE E + x - 52}}) :
             E \in {IF BLess[IF bl < 0 THEN BShl[N, -bl] ELSE N,
                             IF bl > 0 THEN BShl[D, bl] ELSE D]
                    THEN bl - 1 ELSE bl}}) :
             bl \in {BBitLen[N] - BBitLen[D]}})

\* The float nearest to num / den.
FQ[num \in Int, den \in Int] ==
    FRound[(num < 0) # (den < 0), BOf[IF num < 0 THEN -num ELSE num],
           BOf[IF den < 0 THEN -den ELSE den], 0]

FNeg[a \in Float] == [a EXCEPT !.neg = IF a.k = "nan" THEN FALSE ELSE ~a.neg]

\* |a| < |b| for finite a and b.
FMagLess[a \in Float, b \in Float] ==
    IF b.m = <<>> THEN FALSE
    ELSE IF a.m = <<>> THEN TRUE
    ELSE IF BBitLen[a.m] + a.e # BBitLen[b.m] + b.e
         THEN BBitLen[a.m] + a.e < BBitLen[b.m] + b.e
    ELSE \E e0 \in {IF a.e < b.e THEN a.e ELSE b.e} :
             BLess[BShl[a.m, a.e - e0], BShl[b.m, b.e - e0]]

\* a < b
FLess[a \in Float, b \in Float] ==
    IF a.k = "nan" \/ b.k = "nan" THEN FALSE
    ELSE IF a.k = "inf" THEN a.neg /\ ~(b.k = "inf" /\ b.neg)
    ELSE IF b.k = "inf" THEN ~b.neg
    ELSE IF IsZero(a) /\ IsZero(b) THEN FALSE
    ELSE IF a.neg # b.neg THEN a.neg
    ELSE IF a.neg THEN FMagLess[b, a] ELSE FMagLess[a, b]

\* a == b
FEq[a \in Float, b \in Float] ==
    /\ a.k # "nan" /\ b.k # "nan"
    /\ a = b \/ (IsZero(a) /\ IsZero(b))

\* a <= b
FLe[a \in Float, b \in Float] == FLess[a, b] \/ FEq[a, b]

\* a + b
FAdd[a \in Float, b \in Float] ==
    IF a.k = "nan" \/ b.k = "nan" THEN FNaN
    ELSE IF a.k = "inf" THEN (IF b.k = "inf" /\ a.neg # b.neg THEN FNaN ELSE a)
    ELSE IF b.k = "inf" THEN b
    ELSE IF IsZero(a) THEN (IF IsZero(b) THEN FZero(a.neg /\ b.neg) ELSE b)
    ELSE IF IsZero(b) THEN a
    ELSE IF BBitLen[a.m] + a.e > BBitLen[b.m] + b.e + 64 THEN a
    ELSE IF BBitLen[b.m] + b.e > BBitLen[a.m] + a.e + 64 THEN b
    ELSE The({The({
             IF a.neg = b.neg THEN FRound[a.neg, BAdd[A, C], <<1>>, e0]
             ELSE IF A = C THEN FZero(FALSE)
             ELSE IF BLess[A, C] THEN FRound[b.neg, BSub[C, A], <<1>>, e0]
             ELSE FRound[a.neg, BSub[A, C], <<1>>, e0] :
             A \in {BShl[a.m, a.e - e0]}, C \in {BShl[b.m, b.e - e0]}}) :
             e0 \in {IF a.e < b.e THEN a.e ELSE b.e}})

\* a * b
FMul[a \in Float, b \in Float] ==
    IF a.k = "nan" \/ b.k = "nan" THEN FNaN
    ELSE IF a.k = "inf" \/ b.k = "inf"
         THEN (IF IsZero(a) \/ IsZero(b) THEN FNaN ELSE FInf(a.neg # b.neg))
    ELSE FRound[a.neg # b.neg, BMul[a.m, b.m], <<1>>, a.e + b.e]

\* a / b for b # 0
FDiv[a \in Float, b \in Float] ==
    IF a.k = "nan" \/ b.k = "nan" THEN FNaN
    ELSE IF a.k = "inf" THEN (IF b.k = "inf" THEN FNaN ELSE FInf(a.neg # b.neg))
    ELSE IF b.k = "inf" THEN FZero(a.neg # b.neg)
    ELSE FRound[a.neg # b.neg, a.m, b.m, a.e - b.e]

\* round(a, 2): the float nearest to the hundredth nearest to a, an exact tie
\* of a between two hundredths going to the even one.
Round2[a \in Float] ==
    IF a.k # "fin" \/ a.e >= 0 THEN a
    ELSE FRound[a.neg, BDivNearest[BMulSmall[a.m, 100], BShl[<<1>>, -a.e]], <<100>>, 0]


\* The float of an integer, and of a count of hundredths.
FInt(n) == FQ[n, 1]
Flt(hundredths) == FQ[hundredths, 100]

\* 10^k
Pow10[k \in Nat] ==
    IF k = 0 THEN <<1>>
    ELSE IF k < 4 THEN BMulSmall[Pow10[k - 1], 10]
    ELSE BMulSmall[Pow10[k - 4], 10000]

\* int(a) for a finite a: the integer part, as a natural number and a sign.
FTrunc[a \in Float] ==
    IF a.e >= 0 THEN BShl[a.m, a.e]
    ELSE IF -a.e > 64 THEN <<>>
    ELSE BDivMod[a.m, BShl[<<1>>, -a.e]].q

----------------------------------------------------------------------------
(* Python values. *)

None == [t |-> "none"]
Bool(b) == [t |-> "bool", b |-> b]
Str(chars) == [t |-> "str", s |-> chars]
NumF(f) == [t |-> "num", f |-> f]
Lst(items) == [t |-> "list", items |-> items]
Dict(fields) == [t |-> "dict", d |-> fields]

\* The number written with two decimals: Num(7600) is 76 and 76.0.
Num(hundredths) == NumF(Flt(hundredths))

IsNone(v) == v.t = "none"
IsBool(v) == v.t = "bool"
IsStr(v) == v.t = "str"
IsNum(v) == v.t = "num"
IsList(v) == v.t = "list"
IsDict(v) == v.t = "dict"

\* Python truthiness, as `or`, `not` and `if` use it.
Truthy(v) ==
    CASE v.t = "none" -> FALSE
      [] v.t = "bool" -> v.b
      [] v.t = "str"  -> v.s # <<>>
      [] v.t = "num"  -> ~IsZero(v.f)
      [] v.t = "list" -> v.items # <<>>
      [] v.t = "dict" -> DOMAIN v.d # {}

\* A normal return carries raised = ""; a call an exception ended carries
\* the exception's name.
Raise(exc) == [raised |-> exc]
Raised(r) == r.raised # ""

\* d.get(key): the value, or None when the key is absent; a value that is no
\* mapping has no .get.
Get(d, key) ==
    IF ~IsDict(d) THEN Raise("AttributeError")
    ELSE IF key \in DOMAIN d.d THEN d.d[key] ELSE None

\* d.get(key, default)
GetOr(d, key, default) ==
    IF ~IsDict(d) THEN Raise("AttributeError")
    ELSE IF key \in DOMAIN d.d THEN d.d[key] ELSE default

\* `v or ""`
OrEmpty(v) == IF Truthy(v) THEN v ELSE Str(<<>>)

\* `v or []`
OrEmptyList(v) == IF Truthy(v) THEN v ELSE Lst(<<>>)

\* `v or {}`
OrEmptyDict(v) == IF Truthy(v) THEN v ELSE Dict(<<>>)

----------------------------------------------------------------------------
(* Text. *)

UpperCase == <<"A","B","C","D","E","F","G","H","I","J","K","L","M",
             "N","O","P","Q","R","S","T","U","V","W","X","Y","Z",
             "À","Á","Â","Ã","Ä","Å","Æ","Ç","È","É","Ê","Ë","Ì",
             "Í","Î","Ï","Ð","Ñ","Ò","Ó","Ô","Õ","Ö","Ø","Ù","Ú",
             "Û","Ü","Ý","Þ">>
LowerCase == <<"a","b","c","d","e","f","g","h","i","j","k","l","m",
             "n","o","p","q","r","s","t","u","v","w","x","y","z",
             "à","á","â","ã","ä","å","æ","ç","è","é","ê","ë","ì",
             "í","î","ï","ð","ñ","ò","ó","ô","õ","ö","ø","ù","ú",
             "û","ü","ý","þ">>
Digits == <<"0","1","2","3","4","5","6","7","8","9">>

\* Characters str.isspace() holds of: strip() removes them.
Whitespace ==
    {" ", "\t", "\n", "\r", "\f", "U+000B", "U+001C", "U+001D", "U+001E", "U+001F",
     "U+0085", "U+00A0", "U+1680", "U+2000", "U+2001", "U+2002", "U+2003", "U+2004",
     "U+2005", "U+2006", "U+2007", "U+2008", "U+2009", "U+200A", "U+2028", "U+2029",
     "U+202F", "U+205F", "U+3000"}

\* The four separators U+001C..U+001F are white space to strip() and not to
\* float() and int().
NumberSpace == Whitespace \ {"U+001C", "U+001D", "U+001E", "U+001F"}

isspace(c) == c \in Whitespace

\* A decimal digit 0..9.
IsDecimal(c) == \E i \in 1..Len(Digits) : Digits[i] = c

\* str.isdigit(): the decimal digits and the superscript digits.
isdigit(c) == IsDecimal(c) \/ c \in {"²", "³", "¹"}

LowerChar(c) ==
    IF \E i \in 1..Len(UpperCase) : UpperCase[i] = c
    THEN LowerCase[CHOOSE i \in 1..Len(UpperCase) : UpperCase[i] = c]
    ELSE c

\* str.lower()
lower(chars) == [i \in 1..Len(chars) |-> LowerChar(chars[i])]

\* chars without the characters of `space` at its two ends.
StripOf(chars, space) ==
    The({IF keep = {} THEN <<>>
         ELSE SubSeq(chars, CHOOSE i \in keep : \A j \in keep : i <= j,
                            CHOOSE i \in keep : \A j \in keep : j <= i) :
         keep \in {{i \in 1..Len(chars) : chars[i] \notin space}}})

\* str.strip()
strip(chars) == StripOf(chars, Whitespace)

\* `sub in chars`
Contains(sub, chars) ==
    \E i \in 0..(Len(chars) - Len(sub)) : SubSeq(chars, i + 1, i + Len(sub)) = sub

----------------------------------------------------------------------------
(* float() and int() of text. *)

DigitOf(c) == (CHOOSE i \in 1..Len(Digits) : Digits[i] = c) - 1

\* The number a run of decimal digits writes.
RECURSIVE ParseDigits(_)
ParseDigits(chars) ==
    IF chars = <<>> THEN <<>>
    ELSE BAdd[BMulSmall[ParseDigits(SubSeq(chars, 1, Len(chars) - 1)), 10],
              BOf[DigitOf(chars[Len(chars)])]]

\* The same as an integer, held at 100000 from there on: an exponent.
RECURSIVE ParseExponent(_)
ParseExponent(chars) ==
    IF chars = <<>> THEN 0
    ELSE The({IF n > 100000 THEN 100000 ELSE n :
              n \in {10 * ParseExponent(SubSeq(chars, 1, Len(chars) - 1))
                     + DigitOf(chars[Len(chars)])}})

AllDecimal(chars) == \A i \in 1..Len(chars) : IsDecimal(chars[i])

\* An underscore stands between two digits, or the text is no number.
UnderscoresOk(v) ==
    \A i \in 1..Len(v) :
        v[i] = "_" => i > 1 /\ i < Len(v) /\ IsDecimal(v[i - 1]) /\ IsDecimal(v[i + 1])

WithoutUnderscores(v) == SelectSeq(v, LAMBDA c : c # "_")

S_inf == <<"i","n","f">>
S_infinity == <<"i","n","f","i","n","i","t","y">>
S_nan == <<"n","a","n">>

\* The float a decimal literal writes: whole.frac * 10^exponent.  Beyond
\* 10^310 it is infinite, below 10^-330 zero.
DecimalValue(neg, whole, frac, exponent) ==
    The({
        IF \A i \in 1..Len(digits) : digits[i] = "0" THEN FZero(neg)
        ELSE IF x >= 310 THEN FInf(neg)
        ELSE IF x + Len(digits) <= -330 THEN FZero(neg)
        ELSE IF x >= 0 THEN FRound[neg, BMul[Pow10[x], ParseDigits(digits)], <<1>>, 0]
        ELSE FRound[neg, ParseDigits(digits), Pow10[-x], 0] :
        digits \in {whole \o frac},
        x \in {exponent - Len(frac)}})

\* float(text): [ok, f]; ok = FALSE is ValueError.  After the white space at
\* the two ends: a sign, then inf, infinity or nan in any case, or digits
\* with at most one point and an exponent part e[sign]digits.
ParseFloat(text) ==
    The({
        IF ~UnderscoresOk(v) THEN [ok |-> FALSE, f |-> FNaN]
        ELSE The({
            The({
                IF lower(body) = S_inf \/ lower(body) = S_infinity
                THEN [ok |-> TRUE, f |-> FInf(neg)]
                ELSE IF lower(body) = S_nan THEN [ok |-> TRUE, f |-> FNaN]
                ELSE The({
                    The({
                        The({
                            IF /\ Cardinality(dots) <= 1
                               /\ AllDecimal(whole) /\ AllDecimal(frac)
                               /\ Len(whole) + Len(frac) > 0
                               /\ es # {} => (expDigits # <<>> /\ AllDecimal(expDigits))
                            THEN [ok |-> TRUE,
                                  f |-> DecimalValue(neg, whole, frac,
                                            IF expNeg THEN -ParseExponent(expDigits)
                                            ELSE ParseExponent(expDigits))]
                            ELSE [ok |-> FALSE, f |-> FNaN] :
                            whole \in {SubSeq(mant, 1, dot - 1)},
                            frac \in {SubSeq(mant, dot + 1, Len(mant))},
                            expNeg \in {expo # <<>> /\ expo[1] = "-"},
                            expDigits \in {IF expo # <<>> /\ expo[1] \in {"-", "+"}
                                           THEN Tail(expo) ELSE expo}}) :
                        dots \in {{i \in 1..Len(mant) : mant[i] = "."}},
                        dot \in {IF \E i \in 1..Len(mant) : mant[i] = "."
                                 THEN CHOOSE i \in 1..Len(mant) : mant[i] = "."
                                 ELSE Len(mant) + 1},
                        expo \in {SubSeq(body, e + 1, Len(body))}}) :
                    es \in {{i \in 1..Len(body) : body[i] \in {"e", "E"}}},
                    e \in {IF \E i \in 1..Len(body) : body[i] \in {"e", "E"}
                           THEN CHOOSE i \in 1..Len(body) :
                                    /\ body[i] \in {"e", "E"}
                                    /\ \A j \in 1..(i - 1) : body[j] \notin {"e", "E"}
                           ELSE Len(body) + 1},
                    mant \in {SubSeq(body, 1,
                                     IF \E i \in 1..Len(body) : body[i] \in {"e", "E"}
                                     THEN (CHOOSE i \in 1..Len(body) :
                                              /\ body[i] \in {"e", "E"}
                                              /\ \A j \in 1..(i - 1) : body[j] \notin {"e", "E"}) - 1
                                     ELSE Len(body))}}) :
                neg \in {w # <<>> /\ w[1] = "-"},
                body \in {IF w # <<>> /\ w[1] \in {"-", "+"} THEN Tail(w) ELSE w}}) :
            w \in {WithoutUnderscores(v)}}) :
        v \in {StripOf(text, NumberSpace)}})

\* int(text): [ok, neg, n]; ok = FALSE is ValueError.  After the white space
\* at the two ends: a sign, then decimal digits.
ParseInt(text) ==
    The({
        The({
            IF UnderscoresOk(v) /\ body # <<>> /\ AllDecimal(WithoutUnderscores(body))
            THEN [ok |-> TRUE, neg |-> v[1] = "-",
                  n |-> ParseDigits(WithoutUnderscores(body))]
            ELSE [ok |-> FALSE, neg |-> FALSE, n |-> <<>>] :
            body \in {IF v # <<>> /\ v[1] \in {"-", "+"} THEN Tail(v) ELSE v}}) :
        v \in {StripOf(text, NumberSpace)}})

\* try_parse_percentage(value): None or the number.
TryParseMutant_NoFirstCharTest(value) ==
    IF IsNone(value) THEN None
    ELSE IF IsBool(value) THEN NumF(FInt(IF value.b THEN 1 ELSE 0))
    ELSE IF IsNum(value) THEN value
    ELSE IF IsStr(value) THEN
        The({IF v = <<>> THEN None
             ELSE The({IF f.ok THEN NumF(f.f) ELSE None : f \in {ParseFloat(v)}}) :
             v \in {strip(value.s)}})
    ELSE None

try_parse_percentage(value) ==
    IF IsNone(value) THEN None
    ELSE IF IsBool(value) THEN NumF(FInt(IF value.b THEN 1 ELSE 0))
    ELSE IF IsNum(value) THEN value
    ELSE IF IsStr(value) THEN
        The({IF v = <<>> THEN None
             ELSE IF ~(isdigit(v[1]) \/ (v[1] = "-" /\ Len(v) > 1 /\ isdigit(v[2])))
                  THEN None
             ELSE The({IF f.ok THEN NumF(f.f) ELSE None : f \in {ParseFloat(v)}}) :
             v \in {strip(value.s)}})
    ELSE None

----------------------------------------------------------------------------
(* Text constants of the program and of the inputs. *)

S_no_emissions == <<"n","o"," ","e","m","i","s","s","i","o","n","s">>
S_low_emissions == <<"l","o","w"," ","e","m","i","s","s","i","o","n","s">>
S_high_emissions == <<"h","i","g","h"," ","e","m","i","s","s","i","o","n","s">>
S_YesNoEmissions == <<"Y","e","s"," ","-"," ","N","o"," ","E","m","i","s","s","i","o","n","s">>
S_YesLowEmissions == <<"Y","e","s"," ","-"," ","L","o","w"," ","E","m","i","s","s","i","o","n","s">>
S_Yes == <<"Y","e","s">>
S_No == <<"N","o">>
S_Unsure == <<"U","n","s","u","r","e">>

S_Blank == <<" "," ">>
S_NoEmissions == <<"N","o"," ","E","m","i","s","s","i","o","n","s">>
S_LowEmissions == <<"L","o","w"," ","E","m","i","s","s","i","o","n","s">>
S_HighEmissions == <<"H","i","g","h"," ","E","m","i","s","s","i","o","n","s">>
S_lowPadded == <<" ","l","o","w"," ","e","m","i","s","s","i","o","n","s"," ">>
S_Maybe == <<"M","a","y","b","e">>
S_NoPadded == <<" ","N","o"," ">>
S_YesPadded == <<" ","Y","e","s"," ">>
S_76 == <<"7","6">>
S_76Padded == <<" ","7","6"," ">>
S_7x == <<"7","x">>
S_99_97 == <<"9","9",".","9","7">>
S_0_4 == <<"0",".","4">>
S_abc == <<"a","b","c">>

----------------------------------------------------------------------------
(* Score 1: hazardous substances. *)

\* voc_points: Num(2), Num(1), Num(0), in whole points, or None.
VocPoints(voc) ==
    LET voc_lower == lower(voc)
    IN  IF Contains(S_no_emissions, voc_lower) \/ voc = S_YesNoEmissions THEN 2
        ELSE IF Contains(S_low_emissions, voc_lower) \/ voc = S_YesLowEmissions THEN 1
        ELSE IF Contains(S_high_emissions, voc_lower) THEN 0
        ELSE -1

\* subs_points: 1, 0, or -1 for None.
SubsPoints(subs) ==
    IF subs = S_No THEN 1
    ELSE IF subs = S_Yes THEN 0
    ELSE -1

\* The substances_missing flag: set only on "Unsure" and on empty text.
SubsMissing(subs) == subs # S_No /\ subs # S_Yes /\ (subs = S_Unsure \/ subs = <<>>)

\* The score from the two point values (-1 is None).
HazardousMutant_RescalesPresentHalf(voc_points, subs_points) ==
    IF voc_points = -1 /\ subs_points = -1 THEN None
    ELSE IF voc_points = -1 THEN NumF(Round2[FMul[FInt(subs_points), FInt(100)]])
    ELSE IF subs_points = -1
         THEN NumF(Round2[FMul[FDiv[FInt(voc_points), FInt(2)], FInt(100)]])
    ELSE NumF(Round2[FAdd[FMul[FDiv[FInt(voc_points), FInt(2)], FInt(50)],
                          FMul[FInt(subs_points), FInt(50)]]])

HazardousCombine(voc_points, subs_points) ==
    IF voc_points = -1 /\ subs_points = -1 THEN None
    ELSE IF voc_points = -1 THEN NumF(Round2[FMul[FInt(subs_points), FInt(50)]])
    ELSE IF subs_points = -1
         THEN NumF(Round2[FMul[FDiv[FInt(voc_points), FInt(2)], FInt(50)]])
    ELSE LET voc_score == FMul[FDiv[FInt(voc_points), FInt(2)], FInt(50)]
             subs_score == FMul[FInt(subs_points), FInt(50)]
         IN  NumF(Round2[FAdd[voc_score, subs_score]])

\* A record that is no mapping has no .get; a field that is truthy and no
\* text has no .strip.
compute_hazardous_substances_score(p) ==
    IF ~IsDict(p) THEN Raise("AttributeError")
    ELSE LET vocRaw == OrEmpty(Get(p, "volatile_organic_compounds"))
             subsRaw == OrEmpty(Get(p, "substances_of_concern"))
         IN  IF ~IsStr(vocRaw) \/ ~IsStr(subsRaw) THEN Raise("AttributeError")
             ELSE LET voc == strip(vocRaw.s)
                      subs == strip(subsRaw.s)
                  IN  [raised |-> "",
                       score |-> HazardousCombine(VocPoints(voc), SubsPoints(subs)),
                       missing_info |->
                           Dict([voc_missing |-> Bool(VocPoints(voc) = -1),
                                 substances_missing |-> Bool(SubsMissing(subs))])]

----------------------------------------------------------------------------
(* Score 2: Circularity & Lifetime Score Index (CLSI). *)

\* An optional float: a value, or undefined (Python None).
Undefined == [def |-> FALSE, f |-> FZero(FALSE)]
Defined(f) == [def |-> TRUE, f |-> f]

\* R_in, R_out: the parsed percentage / 100.0, or undefined.
Ratio(value) ==
    The({IF IsNone(pct) THEN Undefined ELSE Defined(FDiv[pct.f, FInt(100)]) :
         pct \in {try_parse_percentage(value)}})

\* float(value): [ok, f]; ok = FALSE is the TypeError or ValueError the
\* callers catch.
FloatOf(value) ==
    IF IsNum(value) THEN [ok |-> TRUE, f |-> value.f]
    ELSE IF IsBool(value) THEN [ok |-> TRUE, f |-> FInt(IF value.b THEN 1 ELSE 0)]
    ELSE IF IsStr(value) THEN ParseFloat(value.s)
    ELSE [ok |-> FALSE, f |-> FNaN]

\* S_life = min(1.0, L / reference_lifespan), for a lifespan float() accepts
\* and a non-zero reference; min keeps 1.0 unless the quotient is below it.
LifeFactorMutant_NoCap(L, ref) == FDiv[L, ref]

LifeFactor(L, ref) ==
    The({IF FLess[r, FInt(1)] THEN r ELSE FInt(1) : r \in {FDiv[L, ref]}})

\* S_reuse from the stripped text.
ReuseFactor(reusable_val) ==
    IF reusable_val = <<>> THEN Undefined
    ELSE IF reusable_val = S_Yes THEN Defined(FInt(1))
    ELSE IF reusable_val = S_Unsure THEN Defined(FQ[1, 2])
    ELSE Defined(FInt(0))

\* S_mat from R_in and R_out.
MaterialScore(R_in, R_out) ==
    IF ~R_in.def /\ ~R_out.def THEN Undefined
    ELSE IF ~R_in.def THEN R_out
    ELSE IF ~R_out.def THEN R_in
    ELSE Defined(FDiv[FAdd[R_in.f, R_out.f], FInt(2)])

w_mat == FQ[4, 10]
w_life == FQ[4, 10]
w_reuse == FQ[2, 10]
Neutral == FQ[1, 2]

\* Step 3: the weighted blend, scaled to 0-100 and rounded.
BlendMutant_MissingIsZero(S_mat, S_life, S_reuse) ==
    LET S_mat_final == IF S_mat.def THEN S_mat.f ELSE FInt(0)
        S_life_final == IF S_life.def THEN S_life.f ELSE FInt(0)
        S_reuse_final == IF S_reuse.def THEN S_reuse.f ELSE FInt(0)
        CI_CL == FAdd[FAdd[FMul[w_mat, S_mat_final], FMul[w_life, S_life_final]],
                      FMul[w_reuse, S_reuse_final]]
    IN  Round2[FMul[FInt(100), CI_CL]]

Blend(S_mat, S_life, S_reuse) ==
    LET S_mat_final == IF S_mat.def THEN S_mat.f ELSE Neutral
        S_life_final == IF S_life.def THEN S_life.f ELSE Neutral
        S_reuse_final == IF S_reuse.def THEN S_reuse.f ELSE Neutral
        CI_CL == FAdd[FAdd[FMul[w_mat, S_mat_final], FMul[w_life, S_life_final]],
                      FMul[w_reuse, S_reuse_final]]
    IN  Round2[FMul[FInt(100), CI_CL]]

\* The score and the missing flags from the normalised inputs.
CLSI(R_in, R_out, S_life, S_reuse) ==
    The({[raised |-> "",
          score |-> NumF(Blend(S_mat, S_life, S_reuse)),
          missing_info |->
              Dict([recycled_content_missing |-> Bool(~R_in.def),
                    recyclable_missing |-> Bool(~R_out.def),
                    lifespan_missing |-> Bool(~S_life.def),
                    reusable_missing |-> Bool(~S_reuse.def)])] :
         S_mat \in {MaterialScore(R_in, R_out)}})

\* ref is the reference_lifespan argument, a float.
compute_circularity_lifespan_score(p, ref) ==
    IF ~IsDict(p) THEN Raise("AttributeError")
    ELSE The({
         IF ~IsNone(lifespan_years) /\ L.ok /\ IsZero(ref)
         THEN Raise("ZeroDivisionError")
         ELSE IF ~IsStr(reusable) THEN Raise("AttributeError")
         ELSE The({CLSI(R_in, R_out, S_life, S_reuse) :
                   S_life \in {IF ~IsNone(lifespan_years) /\ L.ok
                               THEN Defined(LifeFactor(L.f, ref))
                               ELSE Undefined},
                   S_reuse \in {ReuseFactor(strip(reusable.s))}}) :
         R_in \in {Ratio(Get(p, "recycled_content_percentage"))},
         R_out \in {Ratio(Get(p, "recyclable_percentage"))},
         lifespan_years \in {Get(p, "expected_lifespan_years")},
         L \in {FloatOf(Get(p, "expected_lifespan_years"))},
         reusable \in {OrEmpty(Get(p, "reusable"))}})

----------------------------------------------------------------------------
----------------------------------------------------------------------------
(* Score 3: certifications. *)

HIGH_VALUE_CERT_KEYWORDS ==
  << <<"E","n","v","i","r","o","n","m","e","n","t","a","l"," ","P","r","o","d","u","c","t"," ","D","e","c","l","a","r","a","t","i","o","n">>,
     <<"E","P","D">>,
     <<"C","r","a","d","l","e"," ","t","o"," ","C","r","a","d","l","e">>,
     <<"C","2","C">>,
     <<"D","e","c","l","a","r","e"," ","l","a","b","e","l">>,
     <<"G","r","e","e","n","T","a","g"," ","ndash"," ","G","r","e","e","n"," ","R","a","t","e">>,
     <<"G","r","e","e","n","T","a","g"," ","ndash"," ","H","e","a","l","t","h"," ","R","a","t","e">>,
     <<"G","r","e","e","n","T","a","g"," ","ndash"," ","L","C","A"," ","R","a","t","e">>,
     <<"G","E","C","A">>,
     <<"G","R","E","E","N","G","U","A","R","D">>,
     <<"H","e","a","l","t","h"," ","P","r","o","d","u","c","t"," ","D","e","c","l","a","r","a","t","i","o","n">>,
     <<"H","P","D">>,
     <<"S","C","S"," ","I","n","d","o","o","r"," ","A","d","v","a","n","t","a","g","e">> >>

max_points == 9

\* any(keyword.lower() in name_lower for keyword in HIGH_VALUE_CERT_KEYWORDS)
IsHighValue(name) ==
    LET name_lower == lower(name)
    IN  \E k \in 1..Len(HIGH_VALUE_CERT_KEYWORDS) :
            Contains(lower(HIGH_VALUE_CERT_KEYWORDS[k]), name_lower)

\* The stripped name of one entry of a well-typed certifications list.
CertName(c) == strip(OrEmpty(Get(c, "certification")).s)

\* An entry the loop body can process: a mapping whose name is text or falsy.
CertEntryOk(c) == IsDict(c) /\ IsStr(OrEmpty(Get(c, "certification")))

\* The score from the two counts and the LCA flag.
CertPointsMutant_NoCaps(high_value_count, other_count, lca_yes) ==
    LET total_points == high_value_count * 2 + other_count
                        + (IF lca_yes THEN 2 ELSE 0)
    IN  Round2[FMul[FDiv[FInt(total_points), FInt(max_points)], FInt(100)]]

CertPointsMutant_CapsSwapped(high_value_count, other_count, lca_yes) ==
    LET min3 == IF high_value_count < 3 THEN high_value_count ELSE 3
        min2 == IF other_count < 2 THEN other_count ELSE 2
        total_points == min3 * 2 + min2 * 1 + (IF lca_yes THEN 2 ELSE 0)
    IN  Round2[FMul[FDiv[FInt(total_points), FInt(max_points)], FInt(100)]]

CertPoints(high_value_count, other_count, lca_yes) ==
    LET min2 == IF high_value_count < 2 THEN high_value_count ELSE 2
        min3 == IF other_count < 3 THEN other_count ELSE 3
        high_value_points == min2 * 2
        other_points == min3 * 1
        lca_points == IF lca_yes THEN 2 ELSE 0
        total_points == high_value_points + other_points + lca_points
    IN  IF max_points > 0
        THEN Round2[FMul[FDiv[FInt(total_points), FInt(max_points)], FInt(100)]]
        ELSE FInt(0)

\* `for c in certs`: a number or True cannot be iterated (TypeError); the
\* characters of a text and the keys of a mapping have no .get.
compute_certification_score(p) ==
    IF ~IsDict(p) THEN Raise("AttributeError")
    ELSE LET certs == OrEmptyList(Get(p, "certifications"))
             lcaRaw == OrEmpty(Get(p, "independent_lca"))
         IN  IF IsNum(certs) \/ IsBool(certs) THEN Raise("TypeError")
             ELSE IF IsStr(certs) \/ IsDict(certs) THEN Raise("AttributeError")
             ELSE IF \E i \in 1..Len(certs.items) : ~CertEntryOk(certs.items[i])
                  THEN Raise("AttributeError")
             ELSE IF ~IsStr(lcaRaw) THEN Raise("AttributeError")
             ELSE LET named == {i \in 1..Len(certs.items) :
                                   CertName(certs.items[i]) # <<>>}
                      high == {i \in named : IsHighValue(CertName(certs.items[i]))}
                  IN  [raised |-> "",
                       score |-> NumF(CertPoints(Cardinality(high),
                                                 Cardinality(named \ high),
                                                 strip(lcaRaw.s) = S_Yes))]

----------------------------------------------------------------------------
(* Aggregation. *)

DerivedFields ==
    {"hazardous_substances_score", "hazardous_substances_score_missing",
     "circularity_lifespan_score", "circularity_lifespan_score_missing",
     "certification_score", "total_score"}

\* total: the weighted sum of the three scores, rounded; w holds the three
\* weights as floats.
TotalMutant_MissingHazardNeutral(hazardous, circularity, certification, w) ==
    LET hazardous_substances_for_total ==
            IF IsNone(hazardous) THEN FInt(50) ELSE hazardous.f
        total == FAdd[FAdd[FMul[hazardous_substances_for_total, w.h],
                           FMul[circularity.f, w.c]],
                      FMul[certification.f, w.s]]
    IN  Round2[total]

TotalMutant_FlipsWeight(hazardous, circularity, certification, w) ==
    LET hazardous_substances_for_total ==
            IF IsNone(hazardous) THEN FInt(0) ELSE hazardous.f
        total == FAdd[FAdd[FMul[hazardous_substances_for_total, w.h],
                           FMul[circularity.f, FNeg[w.c]]],
                      FMul[certification.f, w.s]]
    IN  Round2[total]

Total(hazardous, circularity, certification, w) ==
    LET hazardous_substances_for_total ==
            IF IsNone(hazardous) THEN FInt(0) ELSE hazardous.f
        circularity_for_total == circularity.f
        total == FAdd[FAdd[FMul[hazardous_substances_for_total, w.h],
                           FMul[circularity_for_total, w.c]],
                      FMul[certification.f, w.s]]
    IN  Round2[total]

\* The six derived fields, written over a copy of the record.
Scored(p, haz, circ, cert, w) ==
    Dict([k \in DerivedFields |->
            CASE k = "hazardous_substances_score" -> haz.score
              [] k = "hazardous_substances_score_missing" -> haz.missing_info
              [] k = "circularity_lifespan_score" -> NumF(Round2[circ.score.f])
              [] k = "circularity_lifespan_score_missing" -> circ.missing_info
              [] k = "certification_score" -> NumF(Round2[cert.score.f])
              [] k = "total_score" ->
                     NumF(Total(haz.score, circ.score, cert.score, w))]
         @@ p.d)

\* A return carries the returned record and the caller's record as the call
\* leaves it; `copied` tells that the two are distinct objects.
ComputeAllMutant_InPlace(p, w, ref) ==
    The({IF Raised(haz) THEN haz
         ELSE IF Raised(circ) THEN circ
         ELSE IF Raised(cert) THEN cert
         ELSE The({[raised |-> "", returned |-> scored, argument |-> scored,
                    copied |-> FALSE] :
                   scored \in {Scored(p, haz, circ, cert, w)}}) :
         haz \in {compute_hazardous_substances_score(p)},
         circ \in {compute_circularity_lifespan_score(p, ref)},
         cert \in {compute_certification_score(p)}})

compute_all_scores_for_product(p, w, ref) ==
    The({IF Raised(haz) THEN haz
         ELSE IF Raised(circ) THEN circ
         ELSE IF Raised(cert) THEN cert
         ELSE [raised |-> "",
               returned |-> Scored(p, haz, circ, cert, w),
               argument |-> p,
               copied |-> TRUE] :
         haz \in {compute_hazardous_substances_score(p)},
         circ \in {compute_circularity_lifespan_score(p, ref)},
         cert \in {compute_certification_score(p)}})

----------------------------------------------------------------------------
(* Inputs. *)

SeqsUpTo(S, n) == UNION {[1..k -> S] : k \in 0..n}

\* A field the record does not have.
Absent == [t |-> "absent"]

\* The mapping with the fields that are present.
Record(fields) ==
    Dict([k \in {x \in DOMAIN fields : fields[x] # Absent} |-> fields[k]])

EmptyDict == Dict(<<>>)

\* Values that are no mapping, passed where a record is expected.
NonMappings == {None, Num(500), Str(S_abc), Lst(<<>>)}

VocValues ==
    {Absent, None, Str(<<>>), Str(S_Blank), Str(S_NoEmissions), Str(S_YesNoEmissions),
     Str(S_LowEmissions), Str(S_YesLowEmissions), Str(S_HighEmissions),
     Str(S_lowPadded), Str(S_Unsure), Num(0), Num(500),
     Str(S_NoEmissions \o <<"\n">>), Str(<<"\t">> \o S_HighEmissions \o <<"\r", "\n">>),
     Str(<<"N","O"," ","É","M","I","S","S","I","O","N","S">>), Bool(TRUE)}

SubsValues ==
    {Absent, None, Str(<<>>), Str(S_No), Str(S_Yes), Str(S_Unsure), Str(S_Maybe),
     Str(S_NoPadded), Num(100), Str(S_No \o <<"\n">>),
     Str(<<"U+00A0">> \o S_Unsure \o <<"\r", "\n">>), Str(<<"\t", "\n">>)}

HazProducts ==
    {Record([volatile_organic_compounds |-> v, substances_of_concern |-> c]) :
        v \in VocValues, c \in SubsValues}
    \cup NonMappings

S_1e2 == <<"1","e","2">>
S_7_6 == <<"7","_","6">>
S_76_125 == <<"7","6",".","1","2","5">>
S_1e999 == <<"1","e","9","9","9">>

RecycledValues ==
    {Absent, None, Str(S_Blank), Str(S_Unsure), Str(S_76), Num(10000), Num(12000),
     Str(S_1e2), Str(S_7_6), Str(<<"\t">> \o S_76), Str(<<"²">>), Str(S_1e999)}

RecyclableValues ==
    {Absent, Str(<<>>), Str(S_76Padded), Num(7600), Num(10000),
     Str(S_76 \o <<"\n">>), Str(S_76_125), Str(<<"-">> \o S_1e999)}

LifespanValues ==
    {Absent, None, Str(S_Unsure), Str(S_76), Num(2000), Num(-500), Lst(<<>>),
     Num(100), Num(500), Num(900), Str(<<" ","1","5","\n">>),
     Str(<<"5","e","-","1">>), Str(S_inf), Str(S_nan), Str(<<"U+001C","7">>),
     Bool(TRUE)}

ReusableValues ==
    {Absent, Str(S_Yes), Str(S_Unsure), Str(S_No), Str(S_YesPadded), Num(100),
     Str(S_Yes \o <<"\n">>)}

RefLifespans == {FInt(20), FInt(30), FInt(64), FInt(0), FInt(-20)}

CircProducts ==
    {Record([recycled_content_percentage |-> a, recyclable_percentage |-> b,
             expected_lifespan_years |-> l, reusable |-> r]) :
        a \in RecycledValues, b \in RecyclableValues,
        l \in LifespanValues, r \in ReusableValues}
    \cup NonMappings

----------------------------------------------------------------------------
(* The scorers called on their own. *)

NoResult == [raised |-> "", none |-> TRUE]
NoRequest == [op |-> "none"]

\* Three weights, each given in hundredths.
W(h, c, s) == [h |-> Flt(h), c |-> Flt(c), s |-> Flt(s)]

DefaultWeights == W(40, 40, 20)

\* No batch run: no input file read, nothing scored, written or printed.
NoBatch ==
    /\ input_file = Absent
    /\ products = <<>>
    /\ scored_products = <<>>
    /\ output_file = Absent
    /\ stdout = <<>>

Idle ==
    /\ PRODUCTS_RAW = <<>>
    /\ pc = "start"
    /\ result = NoResult
    /\ request = NoRequest
    /\ NoBatch

InitHaz ==
    /\ product \in HazProducts
    /\ weights = DefaultWeights
    /\ reference_lifespan = FInt(20)
    /\ Idle

CallHazardous ==
    /\ pc = "start"
    /\ result' = compute_hazardous_substances_score(product)
    /\ pc' = "hazardous"
    /\ UNCHANGED <<PRODUCTS_RAW, product, weights, reference_lifespan, request>>
    /\ UNCHANGED batch

SpecHaz == InitHaz /\ [][CallHazardous]_vars

InitCirc ==
    /\ product \in CircProducts
    /\ weights = DefaultWeights
    /\ reference_lifespan \in RefLifespans
    /\ Idle

CallCircularity ==
    /\ pc = "start"
    /\ result' = compute_circularity_lifespan_score(product, reference_lifespan)
    /\ pc' = "circularity"
    /\ UNCHANGED <<PRODUCTS_RAW, product, weights, reference_lifespan, request>>
    /\ UNCHANGED batch

SpecCirc == InitCirc /\ [][CallCircularity]_vars

S_FSC == <<"F","S","C">>
S_EPD == <<"E","P","D">>
S_epdVerified == <<"e","p","d"," ","v","e","r","i","f","i","e","d">>
S_GreenguardGold == <<"G","R","E","E","N","G","U","A","R","D"," ","G","o","l","d">>
S_Declare == <<"D","e","c","l","a","r","e">>

Cert(name) == Dict([certification |-> name])

\* Entries of a certifications list: a high-value name, another name, a blank
\* name, and an entry that is text instead of a mapping.
CertEntries == {Cert(Str(S_EPD)), Cert(Str(S_FSC)), Cert(Str(S_Blank)), Str(S_FSC)}

CertsValues ==
    {Lst(items) : items \in SeqsUpTo(CertEntries, MaxCerts)}
    \cup {Absent, None, Num(500), Str(S_abc), Bool(TRUE), Cert(Str(S_EPD)),
          Lst(<<Cert(Str(S_epdVerified))>>), Lst(<<Cert(Str(S_GreenguardGold))>>),
          Lst(<<Cert(Str(S_Declare))>>), Lst(<<Cert(None)>>), Lst(<<Cert(Num(500))>>),
          Lst(<<Record([certification |-> Absent])>>),
          Lst(<<Cert(Str(S_EPD \o <<"\n">>))>>), Lst(<<Cert(Str(<<"\t", "\n">>))>>),
          Lst(<<Cert(Str(<<"É","P","D">>))>>),
          Lst(<<Dict([certification |-> Str(S_EPD), t |-> Str(<<"x">>)])>>)}

LcaValues ==
    {Absent, None, Str(S_Yes), Str(S_No), Str(S_YesPadded), Num(100),
     Str(S_Yes \o <<"\n">>)}

CertProducts ==
    {Record([certifications |-> c, independent_lca |-> l]) :
        c \in CertsValues, l \in LcaValues}
    \cup NonMappings

InitCert ==
    /\ product \in CertProducts
    /\ weights = DefaultWeights
    /\ reference_lifespan = FInt(20)
    /\ Idle

CallCertification ==
    /\ pc = "start"
    /\ result' = compute_certification_score(product)
    /\ pc' = "certification"
    /\ UNCHANGED <<PRODUCTS_RAW, product, weights, reference_lifespan, request>>
    /\ UNCHANGED batch

SpecCert == InitCert /\ [][CallCertification]_vars

----------------------------------------------------------------------------
(* The aggregator called on its own. *)

S_Plank == <<"P","l","a","n","k">>

FullCerts ==
    Lst(<<Cert(Str(S_EPD)), Cert(Str(S_EPD)), Cert(Str(S_EPD)), Cert(Str(S_FSC)),
          Cert(Str(S_FSC)), Cert(Str(S_FSC))>>)

AllProducts ==
    {Record([product_name |-> Str(S_Plank),
             volatile_organic_compounds |-> v, substances_of_concern |-> c,
             recycled_content_percentage |-> a,
             expected_lifespan_years |-> l, reusable |-> r,
             certifications |-> k.certs, independent_lca |-> k.lca]) :
        v \in {Absent, Str(S_NoEmissions), Str(S_LowEmissions), Num(500)},
        c \in {Absent, Str(S_No)},
        a \in {Absent, Num(10000), Num(12000), Str(S_99_97), Str(S_1e999)},
        l \in {Absent, Num(2000), Num(-500)},
        r \in {Absent, Str(S_Yes), Num(100)},
        k \in {[certs |-> Absent, lca |-> Absent],
               [certs |-> FullCerts, lca |-> Str(S_Yes)],
               [certs |-> Lst(<<Str(S_FSC)>>), lca |-> Absent]}}
    \cup NonMappings

\* Weight triples a caller passes: the defaults, weights that do not sum to
\* one, zero weights and negative weights.
WeightTriples ==
    {W(40, 40, 20), W(20, 20, 60), W(60, 20, 20), W(100, 100, 100), W(0, 0, 0),
     W(100, 0, 0), W(0, 100, 0), W(0, 0, 100),
     W(-20, 40, 20), W(40, -20, 20), W(40, 40, -20), W(50, 30, 20)}

InitAll ==
    /\ product \in AllProducts
    /\ weights \in WeightTriples
    /\ reference_lifespan \in {FInt(20), FInt(0)}
    /\ Idle

CallAll ==
    /\ pc = "start"
    /\ \E r \in {compute_all_scores_for_product(product, weights, reference_lifespan)} :
           /\ result' = r
           /\ product' = IF Raised(r) THEN product ELSE r.argument
    /\ pc' = "all"
    /\ UNCHANGED <<PRODUCTS_RAW, weights, reference_lifespan, request>>
    /\ UNCHANGED batch

SpecAll == InitAll /\ [][CallAll]_vars

----------------------------------------------------------------------------
(* The serving layer (app.py). *)

S_hazardous_substances == <<"h","a","z","a","r","d","o","u","s","_","s","u","b","s","t","a","n","c","e","s">>
S_circularity == <<"c","i","r","c","u","l","a","r","i","t","y">>
S_certification == <<"c","e","r","t","i","f","i","c","a","t","i","o","n">>
S_durability == <<"d","u","r","a","b","i","l","i","t","y">>
S_Flooring == <<"F","l","o","o","r","i","n","g">>
S_FlooringPadded == <<" ","F","l","o","o","r","i","n","g"," ">>
S_Insulation == <<"I","n","s","u","l","a","t","i","o","n">>
S_Missing_data == <<"M","i","s","s","i","n","g"," ","d","a","t","a">>
S_Excellent == <<"E","x","c","e","l","l","e","n","t">>
S_Pass == <<"P","a","s","s">>
S_Fail == <<"F","a","i","l">>
S_Board == <<"B","o","a","r","d">>
S_Batt == <<"B","a","t","t">>

MUST_HAVE_THRESHOLD == FInt(80)

\* int(value): ok = FALSE is the TypeError or ValueError the caller catches;
\* the OverflowError of an infinite float is not caught.  A float is cut
\* toward zero; text must be an integer literal.
IntOf(value) ==
    IF IsNum(value)
    THEN IF value.f.k = "inf"
         THEN [raised |-> "OverflowError", ok |-> FALSE, neg |-> FALSE, n |-> <<>>]
         ELSE IF value.f.k = "nan"
         THEN [raised |-> "", ok |-> FALSE, neg |-> FALSE, n |-> <<>>]
         ELSE [raised |-> "", ok |-> TRUE, neg |-> value.f.neg, n |-> FTrunc[value.f]]
    ELSE IF IsBool(value)
         THEN [raised |-> "", ok |-> TRUE, neg |-> FALSE,
               n |-> IF value.b THEN <<1>> ELSE <<>>]
    ELSE IF IsStr(value)
         THEN The({[raised |-> "", ok |-> i.ok, neg |-> i.neg, n |-> i.n] :
                   i \in {ParseInt(value.s)}})
    ELSE [raised |-> "", ok |-> FALSE, neg |-> FALSE, n |-> <<>>]

\* The loop of _find_product_by_id from record i on: the index of the first
\* record whose id is pid, or 0; a record that is no mapping has no .get.
RECURSIVE FindFrom(_, _, _)
FindFrom(catalog, i, pid) ==
    IF i > Len(catalog) THEN [raised |-> "", idx |-> 0]
    ELSE IF ~IsDict(catalog[i]) THEN [raised |-> "AttributeError", idx |-> 0]
    ELSE The({IF Raised(id) THEN [raised |-> id.raised, idx |-> 0]
              ELSE IF id.ok /\ id.n = BOf[pid] /\ (id.n = <<>> \/ ~id.neg)
                   THEN [raised |-> "", idx |-> i]
              ELSE FindFrom(catalog, i + 1, pid) :
              id \in {IntOf(Get(catalog[i], "id"))}})

\* _find_product_by_id(pid), for a pid of the route's <int:...> converter.
_find_product_by_id(catalog, pid) == FindFrom(catalog, 1, pid)

\* _coerce_weight(v, default): a float.
_coerce_weight(v, default) ==
    The({IF f.ok THEN f.f ELSE default : f \in {FloatOf(v)}})

\* _grade_label(score)
_grade_label(score) ==
    IF IsNone(score) THEN Str(S_Missing_data)
    ELSE IF FLe[FInt(80), score.f] THEN Str(S_Excellent)
    ELSE IF FLe[FInt(50), score.f] THEN Str(S_Pass)
    ELSE Str(S_Fail)

\* [c.get("category_name") for c in (p.get("product_categories") or [])
\*  if c.get("category_name")]: [raised, names].
CategoryNames(p) ==
    IF ~IsDict(p) THEN Raise("AttributeError")
    ELSE The({
        IF IsNum(raw) \/ IsBool(raw) THEN Raise("TypeError")
        ELSE IF IsStr(raw) \/ IsDict(raw) THEN Raise("AttributeError")
        ELSE IF \E i \in 1..Len(raw.items) : ~IsDict(raw.items[i])
             THEN Raise("AttributeError")
        ELSE [raised |-> "",
              names |-> SelectSeq([i \in 1..Len(raw.items) |->
                                      Get(raw.items[i], "category_name")], Truthy)] :
        raw \in {OrEmptyList(Get(p, "product_categories"))}})

InSeq(x, seq) == \E i \in 1..Len(seq) : seq[i] = x

\* The fields of a scored record that a response copies as they are.
PassedFields ==
    {"id", "manufacturer_name", "product_name", "product_code", "product_description",
     "hazardous_substances_score", "circularity_lifespan_score", "certification_score",
     "total_score", "volatile_organic_compounds", "substances_of_concern",
     "recyclable_percentage", "recycled_content_percentage", "reusable",
     "expected_lifespan_years", "independent_lca"}

\* The response item built from a scored record (image_url, which reads no
\* score, is left out).
Item(scored, cat_names) ==
    Dict([k \in PassedFields |-> Get(scored, k)]
         @@ [categories |-> Lst(cat_names),
             hazardous_substances_score_missing |->
                 GetOr(scored, "hazardous_substances_score_missing", EmptyDict),
             circularity_lifespan_score_missing |->
                 GetOr(scored, "circularity_lifespan_score_missing", EmptyDict),
             total_label |-> _grade_label(Get(scored, "total_score")),
             certifications |-> OrEmptyList(Get(scored, "certifications"))])

\* `for m in required_metrics` can run: a list, the characters of a text, the
\* keys of a mapping.
Iterable(v) == IsList(v) \/ IsStr(v) \/ IsDict(v)

\* Some m of `for m in required_metrics` has m == name; key is the same name
\* as a key of a mapping.  A character of a text is never a metric's name.
Requires(required_metrics, name, key) ==
    CASE IsList(required_metrics) ->
            \E i \in 1..Len(required_metrics.items) :
                /\ IsStr(required_metrics.items[i])
                /\ required_metrics.items[i].s = name
      [] IsDict(required_metrics) -> key \in DOMAIN required_metrics.d
      [] OTHER -> FALSE

\* The required-metrics loop: TRUE when no listed metric fails its threshold.
MeetsRequired(scored, required_metrics) ==
    /\ Requires(required_metrics, S_hazardous_substances, "hazardous_substances") =>
          The({~(IsNone(hs) \/ FLess[hs.f, MUST_HAVE_THRESHOLD]) :
               hs \in {Get(scored, "hazardous_substances_score")}})
    /\ Requires(required_metrics, S_circularity, "circularity") =>
          ~FLess[GetOr(scored, "circularity_lifespan_score", NumF(FInt(0))).f,
                 MUST_HAVE_THRESHOLD]
    /\ Requires(required_metrics, S_certification, "certification") =>
          ~FLess[GetOr(scored, "certification_score", NumF(FInt(0))).f,
                 MUST_HAVE_THRESHOLD]

\* list.sort(key=total_score, reverse=True) as CPython 3.11 runs it: the list
\* is reversed, cut into runs of at least minrun items (a natural run, reversed
\* when it descends, filled up by binary insertion), the runs are merged as
\* their powers tell, and the list is reversed again.  Only key < key is
\* asked; where no key is NaN this is the stable sort with the largest total
\* first.  The loops of the sort are run by halves of their passes, so that
\* the depth of the evaluation grows with the logarithm of the list's length.
SortKey(item) == GetOr(item, "total_score", NumF(FInt(0))).f

KeyLess(a, b) == FLess[SortKey(a), SortKey(b)]

Reverse(seq) == [i \in 1..Len(seq) |-> seq[Len(seq) + 1 - i]]

Front(seq) == SubSeq(seq, 1, Len(seq) - 1)

Last(seq) == seq[Len(seq)]

MIN_GALLOP == 7

\* merge_compute_minrun: n itself below 64, else the top six bits of n, plus
\* one when a lower bit is set.
RECURSIVE MinRun(_, _)
MinRun(n, r) ==
    IF n >= 64 THEN MinRun(n \div 2, IF n % 2 = 1 THEN 1 ELSE r) ELSE n + r

merge_compute_minrun(n) == MinRun(n, 0)

\* count_run: the length of the leading run and whether it descends.
CountRun(seq) ==
    IF Len(seq) < 2 THEN [n |-> Len(seq), descending |-> FALSE]
    ELSE The({[n |-> CHOOSE m \in 2..Len(seq) :
                        /\ m < Len(seq) => KeyLess(seq[m + 1], seq[m]) # d
                        /\ \A i \in 3..m : KeyLess(seq[i], seq[i - 1]) = d,
               descending |-> d] :
              d \in {KeyLess(seq[2], seq[1])}})

\* The place of pivot among seq[l+1..r], found by halving.
RECURSIVE Bisect(_, _, _, _)
Bisect(seq, pivot, l, r) ==
    IF l >= r THEN l
    ELSE The({IF KeyLess(pivot, seq[p + 1]) THEN Bisect(seq, pivot, l, p)
              ELSE Bisect(seq, pivot, p + 1, r) :
              p \in {l + ((r - l) \div 2)}})

\* One pass of binarysort's loop: seq[1..start-1] is in order, and seq[start]
\* is put in its place among them.
Insert(seq, start) ==
    The({SubSeq(seq, 1, l) \o <<seq[start]>> \o SubSeq(seq, l + 1, start - 1)
             \o SubSeq(seq, start + 1, Len(seq)) :
         l \in {Bisect(seq, seq[start], 0, start - 1)}})

\* The passes of binarysort's loop for the items from lo to hi.
RECURSIVE InsertAll(_, _, _)
InsertAll(seq, lo, hi) ==
    IF lo > hi THEN seq
    ELSE IF lo = hi THEN Insert(seq, lo)
    ELSE The({InsertAll(half, lo + ((hi - lo) \div 2) + 1, hi) :
              half \in {InsertAll(seq, lo, lo + ((hi - lo) \div 2))}})

\* binarysort: seq[1..start-1] is in order; the items from start on are put in.
BinarySort(seq, start) == InsertAll(seq, start, Len(seq))

\* Whether x stays in front of key: gallop_right puts key after the items
\* equal to it (x is in front unless key < x), gallop_left before them (x is in
\* front when x < key).
Before(right, key, x) == IF right THEN ~KeyLess(key, x) ELSE KeyLess(x, key)

\* The galloping loop of gallop_left and gallop_right: from a[hint] the offset
\* grows 1, 3, 7, ... to the right (dir = 1) while the items stay in front of
\* key, or to the left (dir = -1) while they do not, up to maxofs.
RECURSIVE GallopSpan(_, _, _, _, _, _, _, _)
GallopSpan(right, key, a, hint, dir, maxofs, lastofs, ofs) ==
    IF ofs < maxofs /\ (Before(right, key, a[hint + dir * ofs + 1]) = (dir = 1))
    THEN GallopSpan(right, key, a, hint, dir, maxofs, ofs, 2 * ofs + 1)
    ELSE [lastofs |-> lastofs, ofs |-> IF ofs > maxofs THEN maxofs ELSE ofs]

\* The binary search that ends a gallop, over a[lastofs+1..ofs].
RECURSIVE GallopBisect(_, _, _, _, _)
GallopBisect(right, key, a, lastofs, ofs) ==
    IF lastofs >= ofs THEN ofs
    ELSE The({IF Before(right, key, a[m + 1])
              THEN GallopBisect(right, key, a, m + 1, ofs)
              ELSE GallopBisect(right, key, a, lastofs, m) :
              m \in {lastofs + ((ofs - lastofs) \div 2)}})

\* The number of items of a in front of key, searched from a[hint+1] outwards.
Gallop(right, key, a, hint) ==
    IF Before(right, key, a[hint + 1])
    THEN The({GallopBisect(right, key, a, span.lastofs + hint + 1, span.ofs + hint) :
              span \in {GallopSpan(right, key, a, hint, 1, Len(a) - hint, 0, 1)}})
    ELSE The({GallopBisect(right, key, a, hint - span.ofs + 1, hint - span.lastofs) :
              span \in {GallopSpan(right, key, a, hint, -1, hint + 1, 0, 1)}})

gallop_left(key, a, hint) == Gallop(FALSE, key, a, hint)

gallop_right(key, a, hint) == Gallop(TRUE, key, a, hint)

\* A merge under way: the items of the two runs not yet placed, the items
\* placed, the loop the merge is in, and the counts of wins in a row.
Merging(phase, A, Bq, out, min_gallop) ==
    [phase |-> phase, A |-> A, Bq |-> Bq, out |-> out, min_gallop |-> min_gallop,
     acount |-> 0, bcount |-> 0]

\* A merge that has ended: the merged items and the min_gallop it leaves in
\* the merge state.
Merged(items, min_gallop) == Merging("done", <<>>, <<>>, items, min_gallop)

\* merge_lo, for a run A no longer than the run Bq after it: built from the
\* left.  MergeLoTake is a pass of the loop that takes one item at a time
\* until one run has won min_gallop times in a row.
MergeLoTake(s) ==
    IF KeyLess(s.Bq[1], s.A[1])
    THEN IF Len(s.Bq) = 1 THEN Merged(s.out \o s.Bq \o s.A, s.min_gallop)
         ELSE IF s.bcount + 1 >= s.min_gallop
              THEN Merging("gallop", s.A, Tail(s.Bq), Append(s.out, s.Bq[1]),
                           s.min_gallop + 1)
              ELSE [s EXCEPT !.Bq = Tail(@), !.out = Append(@, s.Bq[1]),
                             !.acount = 0, !.bcount = @ + 1]
    ELSE IF Len(s.A) = 2
         THEN Merged(Append(s.out, s.A[1]) \o s.Bq \o Tail(s.A), s.min_gallop)
         ELSE IF s.acount + 1 >= s.min_gallop
              THEN Merging("gallop", Tail(s.A), s.Bq, Append(s.out, s.A[1]),
                           s.min_gallop + 1)
              ELSE [s EXCEPT !.A = Tail(@), !.out = Append(@, s.A[1]),
                             !.acount = @ + 1, !.bcount = 0]

\* A pass of the loop of merge_lo that takes whole stretches found by
\* galloping, as long as a stretch has MIN_GALLOP items.
MergeLoGallop(s) ==
    The({The({
        IF ka > 0 /\ Len(s.A) - ka = 1
        THEN Merged(s.out \o SubSeq(s.A, 1, ka) \o s.Bq \o SubSeq(s.A, ka + 1, Len(s.A)), g)
        ELSE IF ka > 0 /\ Len(s.A) - ka = 0 THEN Merged(s.out \o s.A \o s.Bq, g)
        ELSE IF Len(s.Bq) = 1
             THEN Merged(s.out \o SubSeq(s.A, 1, ka) \o s.Bq
                             \o SubSeq(s.A, ka + 1, Len(s.A)), g)
        ELSE The({The({
            IF kb > 0 /\ Len(B1) - kb = 0 THEN Merged(out2 \o B1 \o A1, g)
            ELSE IF Len(A1) = 2
                 THEN Merged(out2 \o SubSeq(B1, 1, kb) \o <<A1[1]>>
                                 \o SubSeq(B1, kb + 1, Len(B1)) \o Tail(A1), g)
            ELSE IF ka >= MIN_GALLOP \/ kb >= MIN_GALLOP
                 THEN Merging("gallop", Tail(A1), SubSeq(B1, kb + 1, Len(B1)),
                              out2 \o SubSeq(B1, 1, kb) \o <<A1[1]>>, g)
                 ELSE Merging("take", Tail(A1), SubSeq(B1, kb + 1, Len(B1)),
                              out2 \o SubSeq(B1, 1, kb) \o <<A1[1]>>, g + 1) :
            kb \in {gallop_left(A1[1], B1, 0)}}) :
            A1 \in {SubSeq(s.A, ka + 1, Len(s.A))},
            B1 \in {Tail(s.Bq)},
            out2 \in {s.out \o SubSeq(s.A, 1, ka) \o <<s.Bq[1]>>}}) :
        ka \in {gallop_right(s.Bq[1], s.A, 0)}}) :
        g \in {IF s.min_gallop > 1 THEN s.min_gallop - 1 ELSE s.min_gallop}})

\* The next n passes of merge_lo's loops, or those that are left.
RECURSIVE MergeLoPasses(_, _)
MergeLoPasses(s, n) ==
    IF s.phase = "done" \/ n = 0 THEN s
    ELSE IF n = 1 THEN IF s.phase = "take" THEN MergeLoTake(s) ELSE MergeLoGallop(s)
    ELSE The({MergeLoPasses(half, n - (n \div 2)) : half \in {MergeLoPasses(s, n \div 2)}})

merge_lo(A, Bq, min_gallop) ==
    IF Len(Bq) = 1 THEN Merged(Bq \o A, min_gallop)
    ELSE IF Len(A) = 1 THEN Merged(Bq \o A, min_gallop)
    ELSE MergeLoPasses(Merging("take", A, Tail(Bq), <<Bq[1]>>, min_gallop),
                       Len(A) + Len(Bq))

\* merge_hi, for a run A longer than the run Bq after it: built from the
\* right, with the same two loops.
MergeHiTake(s) ==
    IF KeyLess(Last(s.Bq), Last(s.A))
    THEN IF Len(s.A) = 1 THEN Merged(s.Bq \o s.A \o s.out, s.min_gallop)
         ELSE IF s.acount + 1 >= s.min_gallop
              THEN Merging("gallop", Front(s.A), s.Bq, <<Last(s.A)>> \o s.out,
                           s.min_gallop + 1)
              ELSE [s EXCEPT !.A = Front(@), !.out = <<Last(s.A)>> \o @,
                             !.acount = @ + 1, !.bcount = 0]
    ELSE IF Len(s.Bq) = 2
         THEN Merged(Front(s.Bq) \o s.A \o <<Last(s.Bq)>> \o s.out, s.min_gallop)
         ELSE IF s.bcount + 1 >= s.min_gallop
              THEN Merging("gallop", s.A, Front(s.Bq), <<Last(s.Bq)>> \o s.out,
                           s.min_gallop + 1)
              ELSE [s EXCEPT !.Bq = Front(@), !.out = <<Last(s.Bq)>> \o @,
                             !.acount = 0, !.bcount = @ + 1]

MergeHiGallop(s) ==
    The({The({
        IF ka > 0 /\ Len(s.A) - ka = 0 THEN Merged(s.Bq \o s.A \o s.out, g)
        ELSE IF Len(s.Bq) = 2
             THEN Merged(Front(s.Bq) \o SubSeq(s.A, 1, Len(s.A) - ka) \o <<Last(s.Bq)>>
                             \o SubSeq(s.A, Len(s.A) - ka + 1, Len(s.A)) \o s.out, g)
        ELSE The({The({
            IF kb > 0 /\ Len(B1) - kb = 1
            THEN Merged(SubSeq(B1, 1, 1) \o A1 \o SubSeq(B1, 2, Len(B1)) \o out2, g)
            ELSE IF kb > 0 /\ Len(B1) - kb = 0 THEN Merged(A1 \o B1 \o out2, g)
            ELSE IF Len(A1) = 1
                 THEN Merged(SubSeq(B1, 1, Len(B1) - kb) \o A1
                                 \o SubSeq(B1, Len(B1) - kb + 1, Len(B1)) \o out2, g)
            ELSE IF ka >= MIN_GALLOP \/ kb >= MIN_GALLOP
                 THEN Merging("gallop", Front(A1), SubSeq(B1, 1, Len(B1) - kb),
                              <<Last(A1)>> \o SubSeq(B1, Len(B1) - kb + 1, Len(B1))
                                  \o out2, g)
                 ELSE Merging("take", Front(A1), SubSeq(B1, 1, Len(B1) - kb),
                              <<Last(A1)>> \o SubSeq(B1, Len(B1) - kb + 1, Len(B1))
                                  \o out2, g + 1) :
            kb \in {Len(B1) - gallop_left(Last(A1), B1, Len(B1) - 1)}}) :
            A1 \in {SubSeq(s.A, 1, Len(s.A) - ka)},
            B1 \in {Front(s.Bq)},
            out2 \in {<<Last(s.Bq)>> \o SubSeq(s.A, Len(s.A) - ka + 1, Len(s.A)) \o s.out}}) :
        ka \in {Len(s.A) - gallop_right(Last(s.Bq), s.A, Len(s.A) - 1)}}) :
        g \in {IF s.min_gallop > 1 THEN s.min_gallop - 1 ELSE s.min_gallop}})

\* The next n passes of merge_hi's loops, or those that are left.
RECURSIVE MergeHiPasses(_, _)
MergeHiPasses(s, n) ==
    IF s.phase = "done" \/ n = 0 THEN s
    ELSE IF n = 1 THEN IF s.phase = "take" THEN MergeHiTake(s) ELSE MergeHiGallop(s)
    ELSE The({MergeHiPasses(half, n - (n \div 2)) : half \in {MergeHiPasses(s, n \div 2)}})

merge_hi(A, Bq, min_gallop) ==
    IF Len(A) = 1 THEN Merged(Bq \o A, min_gallop)
    ELSE IF Len(Bq) = 1 THEN Merged(Bq \o A, min_gallop)
    ELSE MergeHiPasses(Merging("take", Front(A), Bq, <<Last(A)>>, min_gallop),
                       Len(A) + Len(Bq))

\* The merge of two neighbouring runs in merge_at: the items of A already in
\* place before Bq's first and the items of Bq already in place after A's last
\* are left where they are, the rest goes to merge_lo or merge_hi.
MergeRuns(A, Bq, min_gallop) ==
    The({IF k = Len(A) THEN Merged(A \o Bq, min_gallop)
         ELSE The({
             IF nb <= 0 THEN Merged(A \o Bq, min_gallop)
             ELSE The({Merged(SubSeq(A, 1, k) \o m.out \o SubSeq(Bq, nb + 1, Len(Bq)),
                              m.min_gallop) :
                       m \in {IF Len(A) - k <= nb
                              THEN merge_lo(SubSeq(A, k + 1, Len(A)), SubSeq(Bq, 1, nb),
                                            min_gallop)
                              ELSE merge_hi(SubSeq(A, k + 1, Len(A)), SubSeq(Bq, 1, nb),
                                            min_gallop)}}) :
             nb \in {gallop_left(Last(A), Bq, Len(Bq) - 1)}}) :
         k \in {gallop_right(Bq[1], A, 0)}})

\* powerloop: the power of the boundary between the run of n1 items at s1 and
\* the run of n2 items after it, in a list of n items.
RECURSIVE PowerLoop(_, _, _, _)
PowerLoop(a, b, n, power) ==
    IF a >= n THEN PowerLoop(2 * (a - n), 2 * (b - n), n, power + 1)
    ELSE IF b >= n THEN power + 1
    ELSE PowerLoop(2 * a, 2 * b, n, power + 1)

powerloop(s1, n1, n2, n) == PowerLoop(2 * s1 + n1, 2 * s1 + n1 + n1 + n2, n, 0)

\* merge_at: the runs i and i+1 of the stack become one run, with the base and
\* the power of run i.
merge_at(ms, i) ==
    The({[ms EXCEPT !.pending = SubSeq(@, 1, i - 1)
                                    \o <<[items |-> m.out, base |-> @[i].base,
                                          power |-> @[i].power]>>
                                    \o SubSeq(@, i + 2, Len(@)),
                    !.min_gallop = m.min_gallop] :
         m \in {MergeRuns(ms.pending[i].items, ms.pending[i + 1].items, ms.min_gallop)}})

\* found_new_run: while the run under the top of the stack has a greater power
\* than the new boundary, the two top runs are merged; the boundary's power is
\* then written to the top run.
RECURSIVE found_new_run(_, _)
found_new_run(ms, power) ==
    IF Len(ms.pending) > 1 /\ ms.pending[Len(ms.pending) - 1].power > power
    THEN The({found_new_run(merged, power) : merged \in {merge_at(ms, Len(ms.pending) - 1)}})
    ELSE [ms EXCEPT !.pending[Len(ms.pending)].power = power]

\* merge_force_collapse: the runs left on the stack are merged, the smaller
\* neighbour of the run under the top first.
RECURSIVE merge_force_collapse(_)
merge_force_collapse(ms) ==
    IF Len(ms.pending) <= 1 THEN ms
    ELSE The({merge_force_collapse(merged) :
              merged \in {The({merge_at(ms,
                              IF n > 1 /\ Len(ms.pending[n - 1].items)
                                              < Len(ms.pending[n + 1].items)
                              THEN n - 1 ELSE n) :
                          n \in {Len(ms.pending) - 1}})}})

\* The next run of the list: the natural run, reversed when it descends, and
\* filled up to minrun items (or to the end of the list) by binarysort.
NextRun(rest, minrun) ==
    The({The({IF run.n < minrun
              THEN The({BinarySort(SubSeq(lined, 1, force), run.n + 1) :
                        force \in {IF Len(rest) < minrun THEN Len(rest) ELSE minrun}})
              ELSE SubSeq(lined, 1, run.n) :
              lined \in {IF run.descending
                         THEN Reverse(SubSeq(rest, 1, run.n))
                                  \o SubSeq(rest, run.n + 1, Len(rest))
                         ELSE rest}}) :
         run \in {CountRun(rest)}})

\* A pass of the main loop of list_sort_impl: the next run is cut off the rest
\* of the list and pushed on the stack of pending runs, after the merges its
\* boundary asks for.
PushRun(ms, n, minrun) ==
    The({The({[found EXCEPT !.pending = Append(@, [items |-> run, base |-> ms.base,
                                                    power |-> 0]),
                            !.rest = SubSeq(@, Len(run) + 1, Len(@)),
                            !.base = @ + Len(run)] :
              found \in {IF ms.pending = <<>> THEN ms
                         ELSE found_new_run(ms, powerloop(Last(ms.pending).base,
                                                          Len(Last(ms.pending).items),
                                                          Len(run), n))}}) :
         run \in {NextRun(ms.rest, minrun)}})

\* The next k passes of the main loop, or those that are left.
RECURSIVE SortRuns(_, _, _, _)
SortRuns(ms, n, minrun, k) ==
    IF ms.rest = <<>> \/ k = 0 THEN ms
    ELSE IF k = 1 THEN PushRun(ms, n, minrun)
    ELSE The({SortRuns(half, n, minrun, k - (k \div 2)) :
              half \in {SortRuns(ms, n, minrun, k \div 2)}})

\* list_sort_impl in ascending order.
ListSort(seq) ==
    IF Len(seq) < 2 THEN seq
    ELSE merge_force_collapse(
             SortRuns([rest |-> seq, base |-> 0, pending |-> <<>>,
                       min_gallop |-> MIN_GALLOP],
                      Len(seq), merge_compute_minrun(Len(seq)), Len(seq))).pending[1].items

SortDesc(items) == Reverse(ListSort(Reverse(items)))

\* The loop `for p in PRODUCTS_RAW` over the first n records: the exception that
\* ended it (or ""), the items appended so far, and the catalog as the loop
\* leaves it.  category is <<>> when the request names none.
RECURSIVE RecommendLoop(_, _, _, _, _)
RecommendLoop(catalog, n, category, required_metrics, w) ==
    IF n = 0 THEN [raised |-> "", items |-> <<>>, catalog |-> catalog]
    ELSE The({
        IF Raised(before) THEN before
        ELSE IF category # <<>> /\ Raised(cat_names)
             THEN [raised |-> cat_names.raised, items |-> before.items,
                   catalog |-> before.catalog]
        ELSE IF category # <<>> /\ ~InSeq(Str(category), cat_names.names) THEN before
        ELSE The({
            IF Raised(scored)
            THEN [raised |-> scored.raised, items |-> before.items,
                  catalog |-> before.catalog]
            ELSE IF ~Iterable(required_metrics)
            THEN [raised |-> "TypeError", items |-> before.items,
                  catalog |-> [before.catalog EXCEPT ![n] = scored.argument]]
            ELSE IF ~MeetsRequired(scored.returned, required_metrics)
            THEN [raised |-> "", items |-> before.items,
                  catalog |-> [before.catalog EXCEPT ![n] = scored.argument]]
            ELSE IF Raised(cat_names)
            THEN [raised |-> cat_names.raised, items |-> before.items,
                  catalog |-> [before.catalog EXCEPT ![n] = scored.argument]]
            ELSE [raised |-> "",
                  items |-> Append(before.items,
                                   Item(scored.returned, cat_names.names)),
                  catalog |-> [before.catalog EXCEPT ![n] = scored.argument]] :
            scored \in {compute_all_scores_for_product(catalog[n], w, FInt(20))}}) :
        before \in {RecommendLoop(catalog, n - 1, category, required_metrics, w)},
        cat_names \in {CategoryNames(catalog[n])}})

\* recommend_materials: [response, catalog], the catalog as the request leaves
\* it.  body is what request.get_json(silent=True) gives.
recommend_materials(catalog, body) ==
    The({
        IF ~IsDict(payload)
        THEN [response |-> Raise("AttributeError"), catalog |-> catalog]
        ELSE The({
            IF ~IsStr(categoryRaw) \/ ~IsDict(weights_raw)
            THEN [response |-> Raise("AttributeError"), catalog |-> catalog]
            ELSE The({
                IF Raised(loop)
                THEN [response |-> Raise(loop.raised), catalog |-> loop.catalog]
                ELSE [response |-> [raised |-> "", success |-> TRUE,
                                    count |-> Len(loop.items),
                                    items |-> SortDesc(loop.items)],
                      catalog |-> loop.catalog] :
                loop \in {RecommendLoop(catalog, Len(catalog), strip(categoryRaw.s),
                              required_metrics,
                              [h |-> _coerce_weight(Get(weights_raw, "hazardous_substances"),
                                                    Flt(40)),
                               c |-> _coerce_weight(Get(weights_raw, "circularity"),
                                                    Flt(40)),
                               s |-> _coerce_weight(Get(weights_raw, "certification"),
                                                    Flt(20))])}}) :
            categoryRaw \in {OrEmpty(Get(payload, "category"))},
            required_metrics \in {OrEmptyList(Get(payload, "required_metrics"))},
            weights_raw \in {OrEmptyDict(Get(payload, "weights"))}}) :
        payload \in {OrEmptyDict(body)}})

\* material_detail: [response, catalog].
material_detail(catalog, product_id) ==
    The({
        IF Raised(found) THEN [response |-> Raise(found.raised), catalog |-> catalog]
        ELSE IF found.idx = 0 \/ ~Truthy(catalog[found.idx])
        THEN [response |-> [raised |-> "", status |-> 404], catalog |-> catalog]
        ELSE The({
            IF Raised(r) THEN [response |-> r, catalog |-> catalog]
            ELSE The({
                IF Raised(categories)
                THEN [response |-> Raise(categories.raised),
                      catalog |-> [catalog EXCEPT ![found.idx] = r.argument]]
                ELSE [response |-> [raised |-> "", status |-> 200, product |-> labelled,
                                    categories |-> categories.names],
                      catalog |-> [catalog EXCEPT
                                      ![found.idx] = IF r.copied THEN r.argument
                                                     ELSE labelled]] :
                labelled \in {Dict([total_label |->
                                       _grade_label(Get(r.returned, "total_score"))]
                                   @@ r.returned.d)},
                categories \in {CategoryNames(catalog[found.idx])}}) :
            r \in {compute_all_scores_for_product(catalog[found.idx], DefaultWeights,
                                                  FInt(20))}}) :
        found \in {_find_product_by_id(catalog, product_id)}})

\* api_material_detail: [response, catalog].
api_material_detail(catalog, product_id) ==
    The({
        IF Raised(found) THEN [response |-> Raise(found.raised), catalog |-> catalog]
        ELSE IF found.idx = 0 \/ ~Truthy(catalog[found.idx])
        THEN [response |-> [raised |-> "", status |-> 404, success |-> FALSE],
              catalog |-> catalog]
        ELSE The({
            IF Raised(r) THEN [response |-> r, catalog |-> catalog]
            ELSE The({
                IF Raised(categories)
                THEN [response |-> Raise(categories.raised),
                      catalog |-> [catalog EXCEPT ![found.idx] = r.argument]]
                ELSE [response |-> [raised |-> "", status |-> 200, success |-> TRUE,
                                    item |-> Item(r.returned, categories.names)],
                      catalog |-> [catalog EXCEPT ![found.idx] = r.argument]] :
                categories \in {CategoryNames(catalog[found.idx])}}) :
            r \in {compute_all_scores_for_product(catalog[found.idx], DefaultWeights,
                                                  FInt(20))}}) :
        found \in {_find_product_by_id(catalog, product_id)}})

----------------------------------------------------------------------------
(* The serving process: a catalog loaded at start, then requests in any order. *)

Categories(names) ==
    Lst([i \in 1..Len(names) |-> Dict([category_name |-> Str(names[i])])])

\* Circularity 79.99, hazardous substances 100.0, certification 44.44.
Plank ==
    Record([id |-> Num(100), product_name |-> Str(S_Plank),
            product_categories |-> Categories(<<S_Flooring>>),
            volatile_organic_compounds |-> Str(S_NoEmissions),
            substances_of_concern |-> Str(S_No),
            recycled_content_percentage |-> Str(S_99_97),
            expected_lifespan_years |-> Num(1500),
            certifications |-> Lst(<<Cert(Str(S_GreenguardGold))>>),
            independent_lca |-> Str(S_Yes)])

\* Circularity exactly 80.0, no hazardous-substances data, a textual id.
Board ==
    Record([id |-> Str(<<" ","2","\n">>), product_name |-> Str(S_Board),
            product_categories |-> Categories(<<S_Flooring, S_Insulation>>),
            recycled_content_percentage |-> Num(10000),
            expected_lifespan_years |-> Num(1500)])

\* Every score excellent.
Batt ==
    Record([id |-> Num(300), product_name |-> Str(S_Batt),
            product_categories |-> Categories(<<S_Insulation>>),
            volatile_organic_compounds |-> Str(S_YesNoEmissions),
            substances_of_concern |-> Str(S_No),
            recycled_content_percentage |-> Num(10000),
            recyclable_percentage |-> Num(10000),
            expected_lifespan_years |-> Num(2000), reusable |-> Str(S_Yes),
            certifications |-> Lst(<<Cert(Str(S_EPD)), Cert(Str(S_EPD)),
                                     Cert(Str(S_FSC)), Cert(Str(S_FSC))>>),
            independent_lca |-> Str(S_Yes)])

\* No id, no category, nothing to score: 50.0 for circularity by neutrality.
Bare == Record([id |-> None, substances_of_concern |-> Str(S_Unsure)])

\* A numeric VOC field: the record cannot be scored.
Odd ==
    Record([id |-> Num(700), product_categories |-> Categories(<<S_Insulation>>),
            volatile_organic_compounds |-> Num(500)])

\* Percentages beyond the floats: R_in is inf, R_out is -inf, and the
\* circularity score and the total are NaN.
Slag ==
    Record([id |-> Str(<<"7",".","0">>), product_name |-> Str(<<"S","l","a","g">>),
            product_categories |-> Categories(<<S_Insulation>>),
            recycled_content_percentage |-> Str(S_1e999),
            recyclable_percentage |-> Str(<<"-">> \o S_1e999)])

\* A record read back from an earlier run's output: it carries stale scores.
Rescored ==
    Dict([total_score |-> Num(0), certification_score |-> Num(10000)] @@ Batt.d)

CatalogProducts == {Plank, Board, Batt, Slag}

\* The catalogs the server starts with: up to MaxCatalog different records,
\* and lists with a record without id, a number in place of a record, a
\* record that cannot be scored, and three records of which the second scores
\* NaN.
Catalogs ==
    {c \in SeqsUpTo(CatalogProducts, MaxCatalog) :
        \A i, j \in 1..Len(c) : i # j => c[i] # c[j]}
    \cup {<<Bare>>, <<Plank, Num(700)>>, <<Num(700), Odd>>, <<Plank, Odd>>,
          <<Bare, Slag, Plank>>}

Metrics(names) == Lst([i \in 1..Len(names) |-> Str(names[i])])

Payload(category, required_metrics, weights_raw) ==
    Record([category |-> category, required_metrics |-> required_metrics,
            weights |-> weights_raw])

CustomWeights ==
    Dict([hazardous_substances |-> None, circularity |-> Str(S_0_4),
          certification |-> Num(100)])

\* The bodies of recommend requests: None is a body that is no JSON.
Payloads ==
    {EmptyDict, None, Lst(<<Str(S_Flooring)>>),
     Payload(Str(S_FlooringPadded), Absent, Absent),
     Payload(Str(S_Insulation), Lst(<<>>), CustomWeights),
     Payload(Absent, Metrics(<<S_circularity>>), Absent),
     Payload(Str(S_FlooringPadded), Metrics(<<S_circularity>>), CustomWeights),
     Payload(None, Metrics(<<S_hazardous_substances>>), Absent),
     Payload(Str(<<>>), Metrics(<<S_certification>>), CustomWeights),
     Payload(Absent, Metrics(<<S_circularity, S_durability, S_hazardous_substances>>),
             Absent),
     Payload(Num(500), Absent, Absent),
     Payload(Absent, Absent, Str(S_0_4)),
     Payload(Absent, Num(100), Absent),
     Payload(Absent, Str(S_circularity), Absent),
     Payload(Str(S_Insulation \o <<"\n">>), Absent,
             Dict([circularity |-> Str(<<"\t","5","e","-","1">>),
                   hazardous_substances |-> Str(S_nan),
                   certification |-> Bool(TRUE)]))}

ProductIds == {1, 2, 7}

Init ==
    /\ PRODUCTS_RAW \in Catalogs
    /\ product \in {Plank, Rescored}
    /\ weights = DefaultWeights
    /\ reference_lifespan = FInt(20)
    /\ pc = "start"
    /\ result = NoResult
    /\ request = NoRequest
    /\ NoBatch

\* A caller scores its own record.
Score ==
    /\ \E r \in {compute_all_scores_for_product(product, weights, reference_lifespan)} :
           /\ result' = r
           /\ product' = IF Raised(r) THEN product ELSE r.argument
    /\ pc' = "all"
    /\ request' = [op |-> "score"]
    /\ UNCHANGED <<PRODUCTS_RAW, weights, reference_lifespan>>
    /\ UNCHANGED batch

MaterialDetail(product_id) ==
    /\ \E out \in {material_detail(PRODUCTS_RAW, product_id)} :
           /\ result' = out.response
           /\ PRODUCTS_RAW' = out.catalog
    /\ pc' = "material_detail"
    /\ request' = [op |-> "material_detail", product_id |-> product_id]
    /\ UNCHANGED <<product, weights, reference_lifespan>>
    /\ UNCHANGED batch

ApiMaterialDetail(product_id) ==
    /\ \E out \in {api_material_detail(PRODUCTS_RAW, product_id)} :
           /\ result' = out.response
           /\ PRODUCTS_RAW' = out.catalog
    /\ pc' = "api_material_detail"
    /\ request' = [op |-> "api_material_detail", product_id |-> product_id]
    /\ UNCHANGED <<product, weights, reference_lifespan>>
    /\ UNCHANGED batch

Recommend(payload) ==
    /\ \E out \in {recommend_materials(PRODUCTS_RAW, payload)} :
           /\ result' = out.response
           /\ PRODUCTS_RAW' = out.catalog
    /\ pc' = "recommend"
    /\ request' = [op |-> "recommend", payload |-> payload]
    /\ UNCHANGED <<product, weights, reference_lifespan>>
    /\ UNCHANGED batch

Next ==
    \/ Score
    \/ \E product_id \in ProductIds : MaterialDetail(product_id)
    \/ \E product_id \in ProductIds : ApiMaterialDetail(product_id)
    \/ \E payload \in Payloads : Recommend(payload)

Spec == Init /\ [][Next]_vars

----------------------------------------------------------------------------
(* Batch mode: main() reads the input file, scores, sorts, writes, prints. *)

MaxBatch == 6
TopCount == 5

\* load_products(path), given the JSON root of the file: the list, or the
\* ValueError for a root that is not a list.
load_products(root) ==
    IF ~IsList(root)
    THEN Raise("ValueError")
    ELSE [raised |-> "", data |-> root.items]

\* item.get("product_name") or item.get("product_code") or item.get("id")
NameOf(item) ==
    IF Truthy(Get(item, "product_name")) THEN Get(item, "product_name")
    ELSE IF Truthy(Get(item, "product_code")) THEN Get(item, "product_code")
    ELSE Get(item, "id")

\* One printed line: the name and the four scores of an item.
Line(item) ==
    [name |-> NameOf(item),
     total |-> item.d["total_score"],
     hazardous_substances |-> item.d["hazardous_substances_score"],
     circularity |-> item.d["circularity_lifespan_score"],
     cert |-> item.d["certification_score"]]

S_Top5 == "Top 5 products by total_score:"

\* What main() prints: the heading, then a line for each of scored_products[:5].
TopFive(items) ==
    <<S_Top5>> \o [i \in 1..(IF Len(items) < TopCount THEN Len(items) ELSE TopCount)
                      |-> Line(items[i])]

\* Same scores as Bare under another identity: a tie in total_score.
Offcut ==
    Record([id |-> Num(900), product_code |-> Str(<<"O","C">>),
            substances_of_concern |-> Str(S_Unsure)])

BatchProducts == {Plank, Bare, Offcut}

\* JSON roots of the input file: arrays of records, arrays holding a record
\* that cannot be scored, a number or a record whose total is NaN, and roots
\* that are not arrays.
InputRoots ==
    {Lst(items) : items \in SeqsUpTo(BatchProducts, MaxBatch)}
        \cup {Lst(<<Plank, Num(100)>>), Lst(<<Plank, Odd, Bare>>), Lst(<<Odd>>),
              Lst(<<Bare, Slag, Plank>>), Lst(<<Slag, Bare, Plank>>),
              Plank, None, Num(100), Str(S_Plank), EmptyDict}

InitBatch ==
    /\ input_file \in InputRoots
    /\ reference_lifespan \in {FInt(20), FInt(30)}
    /\ PRODUCTS_RAW = <<>>
    /\ product = EmptyDict
    /\ weights = DefaultWeights
    /\ pc = "start"
    /\ result = NoResult
    /\ request = NoRequest
    /\ products = <<>>
    /\ scored_products = <<>>
    /\ output_file = Absent
    /\ stdout = <<>>

\* products = load_products(args.input)
Load ==
    /\ pc = "start"
    /\ \E r \in {load_products(input_file)} :
           IF Raised(r)
           THEN /\ result' = r
                /\ pc' = "aborted"
                /\ UNCHANGED products
           ELSE /\ products' = r.data
                /\ pc' = "loop"
                /\ UNCHANGED result
    /\ UNCHANGED <<PRODUCTS_RAW, product, weights, reference_lifespan, request,
                   input_file, scored_products, output_file, stdout>>

\* One pass of `for p in products`: score p and append; an exception ends
\* the run.
ScoreNext ==
    /\ pc = "loop"
    /\ Len(scored_products) < Len(products)
    /\ \E i \in {Len(scored_products) + 1} :
       \E r \in {compute_all_scores_for_product(products[i], DefaultWeights,
                                                reference_lifespan)} :
           IF Raised(r)
           THEN /\ result' = r
                /\ pc' = "aborted"
                /\ UNCHANGED <<products, scored_products>>
           ELSE /\ scored_products' = Append(scored_products, r.returned)
                /\ products' = [products EXCEPT ![i] = r.argument]
                /\ UNCHANGED <<result, pc>>
    /\ UNCHANGED <<PRODUCTS_RAW, product, weights, reference_lifespan, request,
                   input_file, output_file, stdout>>

\* scored_products.sort(key=total_score, reverse=True), after the loop.
Sort ==
    /\ pc = "loop"
    /\ Len(scored_products) = Len(products)
    /\ scored_products' = SortDesc(scored_products)
    /\ pc' = "sorted"
    /\ UNCHANGED <<PRODUCTS_RAW, product, weights, reference_lifespan, request,
                   result, input_file, products, output_file, stdout>>

\* save_products(args.output, scored_products)
Save ==
    /\ pc = "sorted"
    /\ output_file' = Lst(scored_products)
    /\ pc' = "saved"
    /\ UNCHANGED <<PRODUCTS_RAW, product, weights, reference_lifespan, request,
                   result, input_file, products, scored_products, stdout>>

\* The heading and the top five lines.
PrintTop ==
    /\ pc = "saved"
    /\ stdout' = TopFive(scored_products)
    /\ pc' = "printed"
    /\ UNCHANGED <<PRODUCTS_RAW, product, weights, reference_lifespan, request,
                   result, input_file, products, scored_products, output_file>>

NextBatch == Load \/ ScoreNext \/ Sort \/ Save \/ PrintTop

SpecBatch == InitBatch /\ [][NextBatch]_vars

----------------------------------------------------------------------------
(* The three numeric inputs of the CLSI, read one at a time. *)

MaxText == 3

ReadFields ==
    {"recycled_content_percentage", "recyclable_percentage", "expected_lifespan_years"}

\* The lifespan as lines 196-206 read it: None for an absent value and for one
\* float() rejects, else the float.
ReadLifespan(value) ==
    IF IsNone(value) THEN None
    ELSE The({IF L.ok THEN NumF(L.f) ELSE None : L \in {FloatOf(value)}})

\* What the scorer reads from one field of the record: product.get raises
\* AttributeError on a record that is no mapping, before anything is parsed.
ReadField(p, field) ==
    IF ~IsDict(p) THEN Raise("AttributeError")
    ELSE IF field = "expected_lifespan_years"
    THEN ReadLifespan(Get(p, field))
    ELSE try_parse_percentage(Get(p, field))

TextChars == {" ", "\n", "7", "6", "-", "+", "U", "e", "_", "."}

\* Every text of up to MaxText characters, the texts of the spec's examples,
\* decimals, numbers, None and a value that is neither text nor number.
ReadValues ==
    {Str(chars) : chars \in SeqsUpTo(TextChars, MaxText)}
        \cup {Str(S_Unsure), Str(S_76Padded), Str(S_99_97), Str(S_7x), Str(S_abc),
              Str(S_1e2), Str(S_7_6), Str(S_76_125), Str(S_1e999), Str(S_inf),
              Str(S_nan), Str(<<"²">>), Str(<<"U+001C","7">>), Str(<<"\t","7","6">>),
              None, Num(7600), Num(0), Num(-500), Bool(TRUE), Lst(<<>>)}

\* Records that are no mapping: text, numbers, a truth value, None and lists.
ReadNonMappings ==
    NonMappings \cup {Str(<<>>), Num(0), Num(250), Bool(TRUE), Lst(<<Num(100)>>),
                      Lst(<<EmptyDict>>)}

InitRead ==
    /\ product \in {Dict([k \in {field} |-> v]) : field \in ReadFields, v \in ReadValues}
                    \cup {EmptyDict} \cup ReadNonMappings
    /\ weights = DefaultWeights
    /\ reference_lifespan \in {FInt(20), FInt(0)}
    /\ Idle

\* The read of one field on its own: the value read, or the exception the read
\* raised.
Read(field) ==
    /\ pc = "start"
    /\ result' = The({IF "raised" \in DOMAIN v THEN [raised |-> v.raised, field |-> field]
                       ELSE [raised |-> "", field |-> field, value |-> v] :
                       v \in {ReadField(product, field)}})
    /\ pc' = "read"
    /\ UNCHANGED <<PRODUCTS_RAW, product, weights, reference_lifespan, request>>
    /\ UNCHANGED batch

NextRead == (\E field \in ReadFields : Read(field)) \/ CallCircularity

SpecRead == InitRead /\ [][NextRead]_vars

----------------------------------------------------------------------------
(* Properties of the scorers. *)

Returned(op) == pc = op /\ ~Raised(result)

\* 0 <= f <= 100
InRange(f) == FLe[FInt(0), f] /\ FLe[f, FInt(100)]

\* C1: the total of a scored record is round(h*w1 + c*w2 + s*w3, 2) over the
\* record's own sub-scores, with h = 0 when the hazardous-substances score is
\* None; the hazardous_substances_score field is then still None, and each
\* sub-score field is what its scorer returned.
C1_TotalIsWeightedSum ==
    Returned("all") =>
        LET r == result.returned.d
            hs == r["hazardous_substances_score"]
            h == IF IsNone(hs) THEN FInt(0) ELSE hs.f
            c == r["circularity_lifespan_score"].f
            k == r["certification_score"].f
        IN  /\ r["total_score"]
                 = NumF(Round2[FAdd[FAdd[FMul[h, weights.h], FMul[c, weights.c]],
                                    FMul[k, weights.s]]])
            /\ hs = compute_hazardous_substances_score(product).score
            /\ r["circularity_lifespan_score"]
                 = compute_circularity_lifespan_score(product, reference_lifespan).score
            /\ r["certification_score"] = compute_certification_score(product).score

\* A record whose hazardous score is None although its weight is positive and
\* the other two scores make the total positive.
C1_Witness ==
    /\ Returned("all")
    /\ IsNone(result.returned.d["hazardous_substances_score"])
    /\ FLess[FInt(0), weights.h]
    /\ FLess[FInt(0), result.returned.d["total_score"].f]

\* C2: the hazardous-substances score is None when both point values are
\* undefined, s*50 when only the VOC points are, (v/2)*50 when only the
\* substances points are, and (v/2)*50 + s*50 otherwise; No Emissions + "No"
\* is 100.0, High Emissions + "Yes" is 0.0, Low Emissions alone is 25.0.
C2_Expected(v, c) ==
    IF v = -1 /\ c = -1 THEN None
    ELSE IF v = -1 THEN Num(c * 5000)
    ELSE IF c = -1 THEN Num(v * 2500)
    ELSE Num(v * 2500 + c * 5000)

C2_HazardousScore ==
    Returned("hazardous") =>
        LET voc == strip(OrEmpty(Get(product, "volatile_organic_compounds")).s)
            subs == strip(OrEmpty(Get(product, "substances_of_concern")).s)
            v == IF Contains(S_no_emissions, lower(voc)) THEN 2
                 ELSE IF Contains(S_low_emissions, lower(voc)) THEN 1
                 ELSE IF Contains(S_high_emissions, lower(voc)) THEN 0
                 ELSE -1
            c == IF subs = S_No THEN 1 ELSE IF subs = S_Yes THEN 0 ELSE -1
        IN  /\ result.score = C2_Expected(v, c)
            /\ (voc = S_NoEmissions /\ subs = S_No) => result.score = Num(10000)
            /\ (voc = S_HighEmissions /\ subs = S_Yes) => result.score = Num(0)
            /\ (voc = S_LowEmissions /\ subs = <<>>) => result.score = Num(2500)

\* Low Emissions with no substances answer scored 25.0.
C2_Witness ==
    /\ Returned("hazardous")
    /\ product = Record([volatile_organic_compounds |-> Str(S_LowEmissions),
                         substances_of_concern |-> Str(<<>>)])
    /\ result.score = Num(2500)

\* C3: the CLSI is round(100 * (0.4*S_mat + 0.4*S_life + 0.2*S_reuse), 2) with
\* S_mat the average of the defined ones among R_in and R_out, S_life =
\* min(1, lifespan / reference_lifespan), S_reuse 1, 0.5 or 0, and 0.5 in place
\* of each undefined term; no input gives 50.0, and 100/100/20/"Yes" against a
\* reference of 20 gives 100.0.
C3_Expected(p, ref) ==
    LET a == try_parse_percentage(Get(p, "recycled_content_percentage"))
        b == try_parse_percentage(Get(p, "recyclable_percentage"))
        l == Get(p, "expected_lifespan_years")
        reuse == strip(OrEmpty(Get(p, "reusable")).s)
        mat == IF ~IsNone(a) /\ ~IsNone(b)
               THEN FDiv[FAdd[FDiv[a.f, FInt(100)], FDiv[b.f, FInt(100)]], FInt(2)]
               ELSE IF ~IsNone(a) THEN FDiv[a.f, FInt(100)]
               ELSE IF ~IsNone(b) THEN FDiv[b.f, FInt(100)]
               ELSE FQ[1, 2]
        life == IF IsNone(l) \/ ~FloatOf(l).ok THEN FQ[1, 2]
                ELSE IF FLess[FDiv[FloatOf(l).f, ref], FInt(1)]
                     THEN FDiv[FloatOf(l).f, ref]
                ELSE FInt(1)
        re == IF reuse = <<>> THEN FQ[1, 2]
              ELSE IF reuse = S_Yes THEN FInt(1)
              ELSE IF reuse = S_Unsure THEN FQ[1, 2]
              ELSE FInt(0)
    IN  Round2[FMul[FInt(100),
                    FAdd[FAdd[FMul[FQ[4, 10], mat], FMul[FQ[4, 10], life]],
                         FMul[FQ[2, 10], re]]]]

C3_CircularityScore ==
    Returned("circularity") =>
        /\ result.score = NumF(C3_Expected(product, reference_lifespan))
        /\ product = Record([reusable |-> Absent]) => result.score = Num(5000)
        /\ (/\ product = Record([recycled_content_percentage |-> Num(10000),
                                 recyclable_percentage |-> Num(10000),
                                 expected_lifespan_years |-> Num(2000),
                                 reusable |-> Str(S_Yes)])
            /\ reference_lifespan = FInt(20)) => result.score = Num(10000)

\* A lifespan of one year against a reference of 64 and nothing else: the
\* blend is 0.30625 in the reals, its float lies above 30.625 and rounds up.
C3_Witness ==
    /\ Returned("circularity")
    /\ product = Record([expected_lifespan_years |-> Num(100)])
    /\ reference_lifespan = FInt(64)
    /\ result.score = Num(3063)

\* C4: the certification score is round((2*min(H,2) + min(O,3) + L) / 9 * 100, 2)
\* with H the high-value names, O the other non-blank names and L = 2 for an
\* LCA of "Yes"; it is a number, at most 100.0; 0.0 without certifications and
\* LCA, 33.33 for three other certifications, 44.44 for one high-value
\* certification with LCA.
C4_Count(items, high) ==
    Cardinality({i \in 1..Len(items) :
        /\ CertName(items[i]) # <<>>
        /\ IsHighValue(CertName(items[i])) = high})

C4_CertificationScore ==
    Returned("certification") =>
        LET raw == Get(product, "certifications")
            items == IF Truthy(raw) THEN raw.items ELSE <<>>
            H == C4_Count(items, TRUE)
            O == C4_Count(items, FALSE)
            L == IF strip(OrEmpty(Get(product, "independent_lca")).s) = S_Yes
                 THEN 2 ELSE 0
            capH == IF H < 2 THEN H ELSE 2
            capO == IF O < 3 THEN O ELSE 3
        IN  /\ result.score
                 = NumF(Round2[FMul[FDiv[FInt(2 * capH + capO + L), FInt(9)],
                                    FInt(100)]])
            /\ FLe[result.score.f, FInt(100)]
            /\ (H = 0 /\ O = 0 /\ L = 0) => result.score = Num(0)
            /\ (H = 0 /\ O = 3 /\ L = 0) => result.score = Num(3333)
            /\ (H = 1 /\ O = 0 /\ L = 2) => result.score = Num(4444)

\* Three high-value and two other certifications with LCA: both caps are in
\* force and the score is 8/9 of 100.
C4_Witness ==
    /\ Returned("certification")
    /\ product = Record([certifications |->
                            Lst(<<Cert(Str(S_EPD)), Cert(Str(S_FSC)), Cert(Str(S_EPD)),
                                  Cert(Str(S_EPD)), Cert(Str(S_FSC))>>),
                         independent_lca |-> Str(S_Yes)])
    /\ result.score = Num(8889)

\* C5 as stated: every score the CLSI scorer returns lies in [0, 100].
C5_AlwaysInRange ==
    Returned("circularity") => IsNum(result.score) /\ InRange(result.score.f)

\* C5 amended: a returned CLSI is a float, never None, and it lies in [0, 100]
\* when each percentage that parses lies in [0, 100] and the lifespan ratio,
\* when the lifespan is read, is not negative.
C5_InputsInRange(p, ref) ==
    LET a == try_parse_percentage(Get(p, "recycled_content_percentage"))
        b == try_parse_percentage(Get(p, "recyclable_percentage"))
        l == Get(p, "expected_lifespan_years")
    IN  /\ IsNone(a) \/ InRange(a.f)
        /\ IsNone(b) \/ InRange(b.f)
        /\ IsNone(l) \/ ~FloatOf(l).ok \/ ~FLess[FDiv[FloatOf(l).f, ref], FInt(0)]

C5_InRangeForInputsInRange ==
    Returned("circularity") =>
        /\ IsNum(result.score)
        /\ C5_InputsInRange(product, reference_lifespan) => InRange(result.score.f)

\* A lifespan above the reference with full percentages: the cap of S_life
\* keeps the score at 100.0.
C5_Witness ==
    /\ Returned("circularity")
    /\ Get(product, "expected_lifespan_years") = Str(S_76)
    /\ Get(product, "recycled_content_percentage") = Num(10000)
    /\ reference_lifespan = FInt(20)
    /\ C5_InputsInRange(product, reference_lifespan)
    /\ result.score = Num(10000)

\* C6 as stated: compute_all_scores_for_product returns a scored record for
\* every record and every reference_lifespan.
C6_NeverRaises == pc = "all" => ~Raised(result)

----------------------------------------------------------------------------
(* Properties of the serving layer. *)

C7_Payload == OrEmptyDict(request.payload)

C7_Category == strip(OrEmpty(Get(C7_Payload, "category")).s)

C7_Required == OrEmptyList(Get(C7_Payload, "required_metrics"))

C7_Weights ==
    LET weights_raw == OrEmptyDict(Get(C7_Payload, "weights"))
    IN  [h |-> _coerce_weight(Get(weights_raw, "hazardous_substances"), Flt(40)),
         c |-> _coerce_weight(Get(weights_raw, "circularity"), Flt(40)),
         s |-> _coerce_weight(Get(weights_raw, "certification"), Flt(20))]

\* The scored record of catalog entry i under the request's weights.
C7_Scored(i) ==
    compute_all_scores_for_product(PRODUCTS_RAW[i], C7_Weights, FInt(20)).returned

\* score >= 80
C7_Excellent(score) == IsNum(score) /\ FLe[FInt(80), score.f]

C7_InCategory(i) ==
    \E names \in {CategoryNames(PRODUCTS_RAW[i])} :
        ~Raised(names) /\ InSeq(Str(C7_Category), names.names)

\* Entry i matches the category filter and is excellent on each required metric.
C7_Matches(i) ==
    /\ C7_Category = <<>> \/ C7_InCategory(i)
    /\ Requires(C7_Required, S_hazardous_substances, "hazardous_substances")
          => C7_Excellent(Get(C7_Scored(i), "hazardous_substances_score"))
    /\ Requires(C7_Required, S_circularity, "circularity")
          => C7_Excellent(Get(C7_Scored(i), "circularity_lifespan_score"))
    /\ Requires(C7_Required, S_certification, "certification")
          => C7_Excellent(Get(C7_Scored(i), "certification_score"))

C7_ItemOf(i) == Item(C7_Scored(i), CategoryNames(PRODUCTS_RAW[i]).names)

\* The response lists exactly the entries of `expected`, each once.
C7_Lists(expected) ==
    LET items == result.items
    IN  /\ Len(items) = Cardinality(expected)
        /\ \A i \in expected :
               Cardinality({n \in 1..Len(items) : items[n] = C7_ItemOf(i)})
                 = Cardinality({j \in expected : C7_ItemOf(j) = C7_ItemOf(i)})
        /\ \A n \in 1..Len(items) : \E i \in expected : items[n] = C7_ItemOf(i)

\* C7: a recommend response lists exactly the catalog entries that match the
\* category filter (all of them without a category) and score >= 80 on every
\* required metric, each entry once, by total_score descending; an entry at
\* 79.99 on a required metric or without a required hazardous score is not
\* listed, one at exactly 80 is.
C7_RecommendFiltersAndSorts ==
    (pc = "recommend" /\ ~Raised(result)) =>
        /\ C7_Lists({i \in 1..Len(PRODUCTS_RAW) : C7_Matches(i)})
        /\ \A n \in 1..(Len(result.items) - 1) :
               FLe[result.items[n + 1].d["total_score"].f,
                   result.items[n].d["total_score"].f]
        /\ \A n \in 1..Len(result.items) :
               /\ Requires(C7_Required, S_circularity, "circularity")
                     => FLe[FInt(80), result.items[n].d["circularity_lifespan_score"].f]
               /\ Requires(C7_Required, S_hazardous_substances, "hazardous_substances")
                     => IsNum(result.items[n].d["hazardous_substances_score"])

\* No score the request compares is NaN: no sub-score of a listed entry's
\* required metrics, and no total of a listed entry.
C7_NoNaN ==
    \A i \in 1..Len(PRODUCTS_RAW) :
        \E r \in {compute_all_scores_for_product(PRODUCTS_RAW[i], C7_Weights, FInt(20))} :
            ~Raised(r) =>
                /\ r.returned.d["circularity_lifespan_score"].f.k # "nan"
                /\ r.returned.d["total_score"].f.k # "nan"

\* C7, where no score is NaN: the response lists the matching entries as
\* claimed, by total_score descending, entries of equal total in catalog order.
C7_HoldsOfComparableScores ==
    (pc = "recommend" /\ ~Raised(result) /\ C7_NoNaN) => C7_RecommendFiltersAndSorts

\* Circularity required of a catalog with one entry at 79.99 and one at exactly
\* 80.0: the response lists the second alone.
C7_Witness ==
    /\ pc = "recommend"
    /\ ~Raised(result)
    /\ PRODUCTS_RAW = <<Plank, Board>>
    /\ Requires(C7_Required, S_circularity, "circularity")
    /\ Get(C7_Scored(1), "circularity_lifespan_score") = Num(7999)
    /\ Get(C7_Scored(2), "circularity_lifespan_score") = Num(8000)
    /\ result.count = 1
    /\ result.items[1].d["product_name"] = Str(S_Board)

\* No step changes the caller's record or the catalog.
C9_Frame == PRODUCTS_RAW' = PRODUCTS_RAW /\ product' = product

\* The same request again gives the same result.
C9_Deterministic == request' = request => result' = result

\* A record returned by a step holds the fields named of its input unchanged,
\* and its fields are those of the input and the six derived ones.
C9_Holds(fields) ==
    (pc' = "all" /\ ~Raised(result')) =>
        /\ DOMAIN result'.returned.d = DOMAIN product.d \cup DerivedFields
        /\ \A k \in fields : result'.returned.d[k] = product.d[k]

\* C9 as stated: no call or request changes an input record or the catalog; a
\* returned record holds every field of its input with the same value, plus
\* the six derived fields; equal calls return equal records.
C9_PureKeepingEveryField ==
    [][C9_Frame /\ C9_Deterministic /\ C9_Holds(DOMAIN product.d)]_vars

\* C9 amended: the same, where a returned record holds with the same value
\* every field of its input that is not named like one of the six derived
\* fields; those six hold the newly computed values.
C9_PureKeepingOtherFields ==
    [][C9_Frame /\ C9_Deterministic /\ C9_Holds(DOMAIN product.d \ DerivedFields)]_vars

\* A detail page served for a catalog entry: the labelled, scored record is in
\* the response and the catalog entry carries neither label nor score.
C9_Witness ==
    /\ pc = "material_detail"
    /\ ~Raised(result)
    /\ result.status = 200
    /\ "total_label" \in DOMAIN result.product.d
    /\ "total_score" \in DOMAIN result.product.d
    /\ \A i \in 1..Len(PRODUCTS_RAW) :
           /\ IsDict(PRODUCTS_RAW[i])
           /\ DOMAIN PRODUCTS_RAW[i].d \cap (DerivedFields \cup {"total_label"}) = {}
    /\ PRODUCTS_RAW # <<>>

----------------------------------------------------------------------------
(* Properties of the aggregate. *)

\* Amounts a sub-score is raised by: 0.01, 25 and 100.
Increments == {Flt(1), FInt(25), FInt(100)}

\* C8 as stated: raising one sub-score of a scored record, the other two and
\* the weights fixed, never lowers the total, whatever the weights.
C8_Monotone ==
    LET r == result.returned.d
        hs == r["hazardous_substances_score"]
        cs == r["circularity_lifespan_score"]
        ks == r["certification_score"]
        total == r["total_score"].f
    IN  \A d \in Increments :
            /\ IsNum(hs) => ~FLess[Total(NumF(FAdd[hs.f, d]), cs, ks, weights), total]
            /\ ~FLess[Total(hs, NumF(FAdd[cs.f, d]), ks, weights), total]
            /\ ~FLess[Total(hs, cs, NumF(FAdd[ks.f, d]), weights), total]

C8_MonotoneForAnyWeights == Returned("all") => C8_Monotone

\* C8 amended: the same, for weights that are not negative.
C8_MonotoneForNonNegativeWeights ==
    (/\ Returned("all")
     /\ FLe[FInt(0), weights.h] /\ FLe[FInt(0), weights.c] /\ FLe[FInt(0), weights.s])
        => C8_Monotone

\* A record with three numeric sub-scores under positive weights, where a
\* raised hazardous score raises the total.
C8_Witness ==
    /\ Returned("all")
    /\ weights = W(40, 40, 20)
    /\ IsNum(result.returned.d["hazardous_substances_score"])
    /\ FLess[result.returned.d["total_score"].f,
             Total(NumF(FAdd[result.returned.d["hazardous_substances_score"].f,
                             FInt(25)]),
                   result.returned.d["circularity_lifespan_score"],
                   result.returned.d["certification_score"], weights)]

\* C10 as stated: the total and every present sub-score of a scored record lie
\* in [0, 100], whatever the record and the weights.
C10_AllInRange ==
    Returned("all") =>
        LET r == result.returned.d
        IN  /\ InRange(r["total_score"].f)
            /\ IsNone(r["hazardous_substances_score"])
                   \/ InRange(r["hazardous_substances_score"].f)
            /\ InRange(r["circularity_lifespan_score"].f)
            /\ InRange(r["certification_score"].f)

\* C10 amended: the hazardous score, when present, and the certification score
\* lie in [0, 100]; the circularity score does under the conditions of C5; and
\* the total does when the circularity score does and the weights are not
\* negative and sum to at most 1.
C10_InRangeForBoundedWeights ==
    Returned("all") =>
        LET r == result.returned.d
            circ == r["circularity_lifespan_score"].f
        IN  /\ IsNone(r["hazardous_substances_score"])
                   \/ InRange(r["hazardous_substances_score"].f)
            /\ InRange(r["certification_score"].f)
            /\ C5_InputsInRange(product, reference_lifespan) => InRange(circ)
            /\ (/\ InRange(circ)
                /\ FLe[FInt(0), weights.h] /\ FLe[FInt(0), weights.c]
                /\ FLe[FInt(0), weights.s]
                /\ FLe[FAdd[FAdd[weights.h, weights.c], weights.s], FInt(1)])
               => InRange(r["total_score"].f)

\* Every sub-score at 100.0 under the default weights: the total is 100.0.
C10_Witness ==
    /\ Returned("all")
    /\ weights = W(40, 40, 20)
    /\ result.returned.d["hazardous_substances_score"] = Num(10000)
    /\ result.returned.d["circularity_lifespan_score"] = Num(10000)
    /\ result.returned.d["certification_score"] = Num(10000)
    /\ result.returned.d["total_score"] = Num(10000)

----------------------------------------------------------------------------
(* Properties of the missing-data flags. *)

\* C11: whenever the hazardous-substances scorer returns None as the score,
\* both voc_missing and substances_missing are true in the returned
\* missing-info map, whatever the two fields hold.
C11_NoValueSetsBothFlags ==
    (Returned("hazardous") /\ IsNone(result.score)) =>
        /\ result.missing_info.d.voc_missing.b
        /\ result.missing_info.d.substances_missing.b

----------------------------------------------------------------------------
(* Properties of batch mode. *)

C12_RootIsList == IsList(input_file)

\* The scored record of each input product, in input order.
C12_Expected ==
    [i \in 1..Len(input_file.items) |->
        compute_all_scores_for_product(input_file.items[i], DefaultWeights,
                                       reference_lifespan).returned]

C12_TotalOf(item) == item.d["total_score"].f

\* What a batch run leaves behind, at every point of the run: for a root that
\* is not a list, the loader's error and nothing scored, written or printed;
\* an output file, once written, holds exactly one scored record per input
\* product, in non-increasing total_score order when no total is NaN; and
\* printing happens only after the output is written, the lines being the
\* first five of the written order.
C12_WrittenAndPrinted ==
    /\ ~C12_RootIsList =>
           /\ pc \in {"start", "aborted"}
           /\ pc = "aborted" => result = Raise("ValueError")
           /\ products = <<>> /\ scored_products = <<>>
           /\ output_file = Absent /\ stdout = <<>>
    /\ output_file # Absent =>
           /\ C12_RootIsList
           /\ pc \in {"saved", "printed"}
           /\ \E expected \in {C12_Expected} : \E written \in {output_file.items} :
                  /\ Len(written) = Len(expected)
                  /\ \A i \in 1..Len(expected) :
                         Cardinality({j \in 1..Len(written) : written[j] = expected[i]})
                             = Cardinality({j \in 1..Len(expected) :
                                               expected[j] = expected[i]})
                  /\ (\A j \in 1..Len(written) : C12_TotalOf(written[j]).k # "nan")
                         => \A j \in 1..(Len(written) - 1) :
                                FLe[C12_TotalOf(written[j + 1]), C12_TotalOf(written[j])]
    /\ pc = "printed" => stdout # <<>>
    /\ stdout # <<>> =>
           /\ pc = "printed"
           /\ output_file # Absent
           /\ \E written \in {output_file.items} :
                  /\ stdout[1] = S_Top5
                  /\ Len(stdout) = 1 + (IF Len(written) < 5 THEN Len(written) ELSE 5)
                  /\ \A i \in 1..(Len(stdout) - 1) :
                         /\ stdout[i + 1].total = written[i].d["total_score"]
                         /\ stdout[i + 1] = Line(written[i])

\* The written records are in non-increasing total_score order.
C12_Ordered ==
    output_file # Absent =>
        \A j \in 1..(Len(output_file.items) - 1) :
            FLe[C12_TotalOf(output_file.items[j + 1]), C12_TotalOf(output_file.items[j])]

\* C12: a batch run whose input root is not a list aborts with an error
\* before any product is scored, any output is written or anything is printed;
\* a run whose root is a list does not abort: it writes exactly one scored
\* record per input product, in non-increasing total_score order, and then
\* prints the first five of that order.
C12_BatchRun ==
    /\ C12_WrittenAndPrinted
    /\ C12_Ordered
    /\ C12_RootIsList => pc # "aborted"

\* A finished run over six products that were not in score order: six records
\* written, the best first, and five of them printed under the heading.
C12_Witness ==
    /\ pc = "printed"
    /\ Len(input_file.items) = 6
    /\ input_file.items[1] = Bare
    /\ input_file.items[2] = Offcut
    /\ input_file.items[6] = Plank
    /\ Len(output_file.items) = 6
    /\ FLess[C12_TotalOf(output_file.items[6]), C12_TotalOf(output_file.items[1])]
    /\ Len(stdout) = 6

----------------------------------------------------------------------------
(* Properties of the reads. *)

C13_Flag(field) ==
    CASE field = "recycled_content_percentage" -> "recycled_content_missing"
      [] field = "recyclable_percentage" -> "recyclable_missing"
      [] field = "expected_lifespan_years" -> "lifespan_missing"

\* None, a blank string (empty, or white space only) or the string "Unsure".
C13_NoValue(v) ==
    \/ IsNone(v)
    \/ IsStr(v) /\ (v.s = S_Unsure \/ \A i \in 1..Len(v.s) : isspace(v.s[i]))

\* The string "76" or the number 76.
C13_SeventySix(v) == v = Str(S_76) \/ v = Num(7600)

\* The text starts with a digit 0..9, or with a minus sign followed by one.
C13_StartsNumeric(chars) ==
    /\ chars # <<>>
    /\ \/ IsDecimal(chars[1])
       \/ chars[1] = "-" /\ Len(chars) > 1 /\ IsDecimal(chars[2])

\* The text without the white space in front of its first other character.
C13_AfterLeadingSpace(chars) ==
    LET others == {i \in 1..Len(chars) : ~isspace(chars[i])}
    IN  IF others = {} THEN <<>>
        ELSE SubSeq(chars, CHOOSE i \in others : \A j \in others : i <= j, Len(chars))

\* What the claim says of the three fields of a mapping: None, blank and "Unsure" are read
\* as None, "76" and 76 as 76.0; a call whose three fields hold none of a
\* number does not raise; and the missing-info map a call returns has the
\* field's flag true for the former values and false for the latter.
C13_FieldsRead ==
    /\ (pc = "read" /\ IsDict(product)) =>
           /\ ~Raised(result)
           /\ \E v \in {Get(product, result.field)} :
                  /\ C13_NoValue(v) => result.value = None
                  /\ C13_SeventySix(v) => result.value = Num(7600)
    /\ (pc = "circularity" /\ IsDict(product)) =>
           /\ (\A field \in ReadFields : C13_NoValue(Get(product, field)))
                  => ~Raised(result)
           /\ ~Raised(result) =>
                  \A field \in ReadFields : \E v \in {Get(product, field)} :
                      /\ C13_NoValue(v) => result.missing_info.d[C13_Flag(field)].b
                      /\ C13_SeventySix(v) => ~result.missing_info.d[C13_Flag(field)].b

\* C13 as stated: the reads of the three fields, and try_parse_percentage
\* returns None for every string whose first character is neither a digit nor
\* a minus sign followed by a digit.
C13_NoneUnlessFirstCharacterNumeric ==
    /\ C13_FieldsRead
    /\ (pc = "read" /\ IsDict(product) /\ result.field # "expected_lifespan_years") =>
           \E v \in {Get(product, result.field)} :
               (IsStr(v) /\ ~C13_StartsNumeric(v.s)) => result.value = None

\* C13 as amended: the first character is looked at after the surrounding
\* white space is stripped.
C13_NoneUnlessStrippedTextNumeric ==
    /\ C13_FieldsRead
    /\ (pc = "read" /\ IsDict(product) /\ result.field # "expected_lifespan_years") =>
           \E v \in {Get(product, result.field)} :
               (IsStr(v) /\ ~C13_StartsNumeric(C13_AfterLeadingSpace(v.s)))
                   => result.value = None

\* A percentage text with a newline in front of its digits, read as 76.0.
C13_Witness ==
    /\ pc = "read"
    /\ IsDict(product)
    /\ result.field = "recyclable_percentage"
    /\ Get(product, "recyclable_percentage") = Str(<<"\n","7","6">>)
    /\ result.value = Num(7600)

====
